---------------------------- MODULE Spec2Model ----------------------------
(***************************************************************************)
(* Model of the market-regime classifier, of the adaptive scoring and      *)
(* strategy engine and of the refresh cycle (loadData, the interval        *)
(* timers, the regime-change signal) of EnhancedCryptoPumpDetector         *)
(* (crypto-pump-detector).                                                 *)
(*                                                                         *)
(* The class body is held twice in the repository (src/script.js and       *)
(* src/unnamed/part_000); both copies are textually identical for the      *)
(* methods modelled here, line numbers in comments refer to part_000.      *)
(*                                                                         *)
(* Numbers.  JavaScript numbers are modelled as exact fixed-point values:  *)
(*   - market ratios in units of 1/Scale (Scale is a multiple of 100 and   *)
(*     of every universe size, so count/total and the thresholds are       *)
(*     exact), wrapped in a record with a NaN flag because 0/0 and         *)
(*     parseFloat of garbage yield NaN and every comparison with NaN is    *)
(*     false;                                                              *)
(*   - scores in hundredths of a point (Points);                           *)
(*   - plan prices in thousandths of the price unit (multipliers are       *)
(*     per-mille integers); the products are exact, where a double is      *)
(*     within one unit in the last place of them.                          *)
(***************************************************************************)
EXTENDS Integers, Sequences, FiniteSets, Bags, TLC

VARIABLES
    tickers,        \* the ticker universe handed to analyzeMarketConditions
    analysis,       \* the MarketSnapshot handed to determineMarketRegime
    marketRegime,   \* this.marketRegime / the regime argument of adaptStrategyToMarket
    coin,           \* the analysed coin handed to adaptStrategyToMarket
    scored,         \* the ScoredAsset adaptStrategyToMarket returned
    pc,             \* position of the computation
    marketMetrics,  \* this.marketMetrics, the snapshot of the last detection
    modal,          \* the coin details modal on screen
    market,         \* the exchange data every fetch answers from
    coins,          \* this.coins, the published list
    filteredCoins,  \* this.filteredCoins
    cycles,         \* the loadData invocations between start and completion
    slowPending,    \* a detectMarketRegime of the SLOW_UPDATE timer is suspended
    errorShown,     \* an error message of showError is on screen
    previousMarketRegime,   \* localStorage 'previousMarketRegime'
    regimeChanged,  \* what a direct call of hasMarketRegimeChanged returned
    enableNotifications,    \* CONFIG.ALERTS.ENABLE_NOTIFICATIONS
    alertPass,      \* position and locals of the checkAndSendAlerts call in progress
    sent,           \* the alerts the call in progress has sent, in order
    alertsContainer,        \* the .ui-alert children of #alertsContainer, first child first
    monitorAlerts,  \* window.priceMonitor.alerts
    priceAlerts,    \* localStorage 'priceAlerts'
    checkPass,      \* position and locals of the checkAlerts call in progress
    watchlist       \* localStorage 'cryptoWatchlist'

\* the state of the running detector, untouched by the single-method
\* specifications
detectorVars == <<market, coins, filteredCoins, cycles, slowPending, errorShown,
                  previousMarketRegime, regimeChanged>>

\* the alerts panel, the price alerts and the watchlist of the page
pageVars == <<enableNotifications, alertPass, sent, alertsContainer, monitorAlerts,
              priceAlerts, checkPass, watchlist>>

vars == <<tickers, analysis, marketRegime, coin, scored, pc, marketMetrics, modal,
          detectorVars, pageVars>>

---------------------------------------------------------------------------
(* Bounds *)

\* largest ticker universe analysed
MaxTickers == 5

---------------------------------------------------------------------------
(* Arithmetic helpers *)

RECURSIVE Gcd(_, _)
Gcd(a, b) == IF b = 0 THEN a ELSE Gcd(b, a % b)

RECURSIVE LcmUpTo(_)
LcmUpTo(n) == IF n <= 1 THEN 1 ELSE LET m == LcmUpTo(n - 1) IN (m * n) \div Gcd(m, n)

\* one unit of a ratio is 1/Scale
Scale == 100 * LcmUpTo(MaxTickers)

\* h hundredths (0.65 is Pct(65))
Pct(h) == h * (Scale \div 100)

Num(v) == [nan |-> FALSE, v |-> v]
NaN == [nan |-> TRUE, v |-> 0]

\* JavaScript relational operators: false as soon as one side is NaN
Gt(a, b) == ~a.nan /\ ~b.nan /\ a.v > b.v
Lt(a, b) == ~a.nan /\ ~b.nan /\ a.v < b.v

Abs(x) == IF x < 0 THEN -x ELSE x
Min(a, b) == IF a < b THEN a ELSE b
Max(a, b) == IF a > b THEN a ELSE b

---------------------------------------------------------------------------
(* CONFIG.MARKET_REGIME (enhanced-config.js), in hundredths *)

BULL_THRESHOLD == 65
BEAR_THRESHOLD == 35

---------------------------------------------------------------------------
(* Market Snapshot Analyzer *)

\* sign classes of parseFloat(t.sodUtc8): c > 0, c < 0, c === 0, NaN
Changes == {"pos", "neg", "zero", "nan"}

RECURSIVE Count(_, _)
Count(s, c) ==
    IF s = <<>> THEN 0
    ELSE (IF Head(s) = c THEN 1 ELSE 0) + Count(Tail(s), c)

\* count / total in JavaScript: 0/0 is NaN, total > 0 gives the exact ratio
Div(count, total) == IF total = 0 THEN NaN ELSE Num((count * Scale) \div total)

\* IEEE-754 rounding of bullishRatio - bearishRatio: among all universes of
\* at most 8 tickers the only difference whose double falls on the other
\* side of a threshold of determineMarketRegime is 3/5 - 2/5 =
\* 0.19999999999999996 (exactly 0.2 in the rationals); it is modelled as
\* one unit below the exact value.
RoundsBelow(p, n, total) == total = 5 /\ {p, n} = {2, 3}

analyzeTrendDirection(tk) ==
    LET positiveCount == Count(tk, "pos")
        negativeCount == Count(tk, "neg")
        neutralCount  == Count(tk, "zero")
        total         == Len(tk)
        bullishRatio  == Div(positiveCount, total)
        bearishRatio  == Div(negativeCount, total)
        diff          == Abs(bullishRatio.v - bearishRatio.v)
    IN  [ bullishRatio  |-> bullishRatio,
          bearishRatio  |-> bearishRatio,
          neutralRatio  |-> Div(neutralCount, total),
          trendStrength |-> IF total = 0 THEN NaN
                            ELSE Num(IF RoundsBelow(positiveCount, negativeCount, total)
                                     THEN diff - 1 ELSE diff),
          direction     |-> IF Gt(bullishRatio, bearishRatio) THEN "bullish" ELSE "bearish" ]

---------------------------------------------------------------------------
(* Regime Classifier *)

Regimes == {"bull_stable", "bull_volatile", "bear_stable", "bear_volatile",
            "volatile_sideways", "sideways_stable", "neutral"}

\* the four rule predicates of determineMarketRegime, in source order
\* strength >= 0.6 instead of strength > 0.6
BullRule_strengthInclusive(a) ==
    /\ Gt(a.trend.bullishRatio, Num(Pct(BULL_THRESHOLD)))
    /\ ~Lt(a.strength.strength, Num(Pct(60))) /\ ~a.strength.strength.nan
    /\ a.volume.trend = "increasing"

BullRule(a) ==
    /\ Gt(a.trend.bullishRatio, Num(Pct(BULL_THRESHOLD)))
    /\ Gt(a.strength.strength, Num(Pct(60)))
    /\ a.volume.trend = "increasing"

\* BEAR_THRESHOLD itself instead of 1 - BEAR_THRESHOLD
BearRule_thresholdDirect(a) ==
    /\ Gt(a.trend.bearishRatio, Num(Pct(BEAR_THRESHOLD)))
    /\ Lt(a.strength.strength, Num(Pct(40)))

BearRule(a) ==
    /\ Gt(a.trend.bearishRatio, Num(Pct(100 - BEAR_THRESHOLD)))
    /\ Lt(a.strength.strength, Num(Pct(40)))

\* the volatility test of rule 3 dropped
VolatileSidewaysRule_anyVolatility(a) ==
    Lt(a.trend.trendStrength, Num(Pct(20)))

VolatileSidewaysRule(a) ==
    /\ a.volatility.regime = "high"
    /\ Lt(a.trend.trendStrength, Num(Pct(20)))

\* the bound of rule 3 (0.2) used in rule 4
SidewaysStableRule_wideBand(a) ==
    /\ Lt(a.trend.trendStrength, Num(Pct(20)))
    /\ a.volatility.regime = "low"

SidewaysStableRule(a) ==
    /\ Lt(a.trend.trendStrength, Num(Pct(15)))
    /\ a.volatility.regime = "low"

\* rule 4 tried before rule 1
determineMarketRegime_sidewaysFirst(a) ==
    IF SidewaysStableRule(a) THEN "sideways_stable"
    ELSE IF BullRule(a)
    THEN (IF a.volatility.regime = "high" THEN "bull_volatile" ELSE "bull_stable")
    ELSE IF BearRule(a)
    THEN (IF a.volatility.regime = "high" THEN "bear_volatile" ELSE "bear_stable")
    ELSE IF VolatileSidewaysRule(a) THEN "volatile_sideways"
    ELSE "neutral"

\* rule 3 tried before rule 2
determineMarketRegime_volatileBeforeBear(a) ==
    IF BullRule(a)
    THEN (IF a.volatility.regime = "high" THEN "bull_volatile" ELSE "bull_stable")
    ELSE IF VolatileSidewaysRule(a) THEN "volatile_sideways"
    ELSE IF BearRule(a)
    THEN (IF a.volatility.regime = "high" THEN "bear_volatile" ELSE "bear_stable")
    ELSE IF SidewaysStableRule(a) THEN "sideways_stable"
    ELSE "neutral"

determineMarketRegime(a) ==
    IF BullRule(a)
    THEN (IF a.volatility.regime = "high" THEN "bull_volatile" ELSE "bull_stable")
    ELSE IF BearRule(a)
    THEN (IF a.volatility.regime = "high" THEN "bear_volatile" ELSE "bear_stable")
    ELSE IF VolatileSidewaysRule(a) THEN "volatile_sideways"
    ELSE IF SidewaysStableRule(a) THEN "sideways_stable"
    ELSE "neutral"

---------------------------------------------------------------------------
(* CONFIG.SCORING (enhanced-config.js), in points *)

RSI_POSITIVE == 20
MACD_POSITIVE == 20
HIGH_LIQUIDITY == 25
BUYING_POWER == 25
MA_CROSSOVER == 25
MOMENTUM == 15
VOLUME_BREAKOUT == 20

RSI_OVERSOLD == 25
SUPPORT_BOUNCE == 30
VOLUME_SPIKE == 20
DIVERGENCE == 25
DEFENSIVE_SIGNALS == 20

SUPPORT_RESISTANCE == 25
BREAKOUT_POTENTIAL == 15

(* CONFIG.RISK_MANAGEMENT.*.MAX_POSITION_SIZE, in 1/10000 of the portfolio *)

BULL_MAX_POSITION_SIZE == 500
BEAR_MAX_POSITION_SIZE == 200
SIDEWAYS_MAX_POSITION_SIZE == 300

---------------------------------------------------------------------------
(* Adaptive Scoring Engine *)

\* a score of n points, in hundredths of a point
Points(n) == n * 100

\* score * f/10 for the multipliers 0.7 and 0.9
Times(score, tenths) == (score * tenths) \div 10

Clamp(score) == Max(0, Min(Points(100), score))

hasMomentum(a) ==
    /\ a.rsi.value > 50
    /\ a.macd.signal = "bullish"
    /\ a.liquidityFlow.trend = "increasing"

hasVolumeBreakout(a) == a.liquidityFlow.percentage > 50

hasSupportBounce(a) ==
    /\ a.rsi.signal = "oversold"
    /\ a.accumulationDistribution.trend = "accumulation"

hasVolumeSpike(a) == a.liquidityFlow.percentage > 100

hasBullishDivergence(a) ==
    /\ a.rsi.trend = "bullish"
    /\ a.moneyFlowIndex.flow = "positive"

hasDefensiveSignals(a) ==
    /\ a.rsi.value < 40
    /\ a.moneyFlowIndex.signal # "overbought"

When(cond, points) == IF cond THEN Points(points) ELSE 0

\* the running sum `score` of calculateBullMarketScore before its return
BullMarketPoints(a) ==
      When(a.rsi.trend = "bullish" /\ a.rsi.signal # "overbought", RSI_POSITIVE)
    + When(a.macd.signal = "bullish", MACD_POSITIVE)
    + When(a.liquidityFlow.trend = "increasing", HIGH_LIQUIDITY)
    + When(a.buyingPower.strength = "high", BUYING_POWER)
    + When(a.movingAverages.signal = "buy", MA_CROSSOVER)
    + When(hasMomentum(a), MOMENTUM)
    + When(hasVolumeBreakout(a), VOLUME_BREAKOUT)

calculateBullMarketScore_unclamped(a) == BullMarketPoints(a)

calculateBullMarketScore(a) == Min(BullMarketPoints(a), Points(100))

\* the running sum `score` of calculateBearMarketScore before its return
BearMarketPoints(a) ==
      When(a.rsi.signal = "oversold", RSI_OVERSOLD)
    + When(hasSupportBounce(a), SUPPORT_BOUNCE)
    + When(hasVolumeSpike(a), VOLUME_SPIKE)
    + When(hasBullishDivergence(a), DIVERGENCE)
    + When(hasDefensiveSignals(a), DEFENSIVE_SIGNALS)

calculateBearMarketScore(a) == Min(BearMarketPoints(a), Points(100))

(* The five scorers below are called by adaptStrategyToMarket but their    *)
(* bodies are not part of the sources; they follow section 4.4 of the      *)
(* design: gated additive contributions, the regime's bonuses and          *)
(* penalties, the high-volatility dampening, and the clamp to [0,100].     *)

StabilityBonus == 10
ResilienceBonus == 10

\* "RSI bullish and not overbought", "MACD bullish", "liquidity flow
\* increasing", "high buying power", "moving-average buy signal"
GatedPoints(a) ==
      When(a.rsi.trend = "bullish" /\ a.rsi.signal # "overbought", RSI_POSITIVE)
    + When(a.macd.signal = "bullish", MACD_POSITIVE)
    + When(a.liquidityFlow.trend = "increasing", HIGH_LIQUIDITY)
    + When(a.buyingPower.strength = "high", BUYING_POWER)
    + When(a.movingAverages.signal = "buy", MA_CROSSOVER)

\* high aggregate volatility: x0.9 plus a stability bonus for an asset
\* whose own volatility is below average
HighVolatilityAdjusted(score, a) ==
    Times(score, 9) + When(a.volatility = "low", StabilityBonus)

\* bear regime: resilience bonus, x0.7 on an extreme 24h gain
BearAdjusted(score, a) ==
    LET withBonus == score + When(a.priceChange24h < 0 /\ a.priceChange24h > -5
                                    /\ a.rsi.value < 40, ResilienceBonus)
    IN  IF a.priceChange24h >= 10 THEN Times(withBonus, 7) ELSE withBonus

\* sideways regime: volatile with increasing liquidity, price at support1
SidewaysPoints(a) ==
      GatedPoints(a)
    + When(a.volatility = "high" /\ a.liquidityFlow.trend = "increasing",
           BREAKOUT_POTENTIAL)
    + When(a.supportResistance.nearSupport, SUPPORT_RESISTANCE)

calculateScore(a) == Clamp(GatedPoints(a))

calculateVolatileBullScore(a) == Clamp(HighVolatilityAdjusted(BullMarketPoints(a), a))

calculateVolatileBearScore(a) ==
    Clamp(HighVolatilityAdjusted(BearAdjusted(BearMarketPoints(a), a), a))

calculateSidewaysScore(a) == Clamp(SidewaysPoints(a))

calculateVolatileSidewaysScore(a) == Clamp(HighVolatilityAdjusted(SidewaysPoints(a), a))

---------------------------------------------------------------------------
(* Plan confidence, in hundredths of a point like the scores *)

\* this.marketMetrics = {} of the constructor
EmptyMetrics == [empty |-> TRUE]

\* this.marketMetrics.trend?.bullishRatio: undefined on {}, and a comparison
\* with undefined is false like one with NaN
MetricsBullishRatio ==
    IF marketMetrics = EmptyMetrics THEN NaN ELSE marketMetrics.trend.bullishRatio

\* this.marketMetrics.volatility?.regime
MetricsVolatilityRegime ==
    IF marketMetrics = EmptyMetrics THEN "undefined" ELSE marketMetrics.volatility.regime

isNearSupportResistance(a) ==
    a.supportResistance.nearSupport \/ a.supportResistance.nearResistance

\* the return without Math.min(100, .)
calculateConfidence_unclamped(a, marketType) ==
    LET confidence ==
              Points(50)
            + When(a.rsi.signal = "bullish", 10)
            + When(a.macd.signal = "bullish", 10)
            + When(a.liquidityFlow.trend = "increasing", 15)
            + When(a.buyingPower.strength = "high", 15)
            + (CASE marketType = "bull" ->
                      When(Gt(MetricsBullishRatio, Num(Pct(70))), 10)
                 [] marketType = "bear" -> When(a.rsi.signal = "oversold", 15)
                 [] marketType = "sideways" -> When(isNearSupportResistance(a), 10)
                 [] OTHER -> 0)
            - When(MetricsVolatilityRegime = "high", 10)
            - When(a.rsi.signal = "overbought", 15)
    IN  Max(0, confidence)

calculateConfidence(a, marketType) ==
    LET confidence ==
              Points(50)
            + When(a.rsi.signal = "bullish", 10)
            + When(a.macd.signal = "bullish", 10)
            + When(a.liquidityFlow.trend = "increasing", 15)
            + When(a.buyingPower.strength = "high", 15)
            + (CASE marketType = "bull" ->
                      When(Gt(MetricsBullishRatio, Num(Pct(70))), 10)
                 [] marketType = "bear" -> When(a.rsi.signal = "oversold", 15)
                 [] marketType = "sideways" -> When(isNearSupportResistance(a), 10)
                 [] OTHER -> 0)
            - When(MetricsVolatilityRegime = "high", 10)
            - When(a.rsi.signal = "overbought", 15)
    IN  Max(0, Min(Points(100), confidence))

---------------------------------------------------------------------------
(* Strategy Synthesizer: prices in thousandths, multipliers per mille *)

\* the stop stored as the loss (-8%) instead of the level
getBullMarketStrategy_stopAsLoss(c) ==
    [ type         |-> "bull_market",
      confidence   |-> calculateConfidence(c.analysis, "bull"),
      entryPrice   |-> c.price * 995,
      stopLoss     |-> c.price * (920 - 1000),
      targets      |-> <<c.price * 1150, c.price * 1300, c.price * 1500>>,
      positionSize |-> BULL_MAX_POSITION_SIZE * 10,
      timeframe    |-> "medium_term" ]

\* the first target at +12% (the volatile-bull table)
getBullMarketStrategy_volatileTargets(c) ==
    [ type         |-> "bull_market",
      confidence   |-> calculateConfidence(c.analysis, "bull"),
      entryPrice   |-> c.price * 995,
      stopLoss     |-> c.price * 920,
      targets      |-> <<c.price * 1120, c.price * 1300, c.price * 1500>>,
      positionSize |-> BULL_MAX_POSITION_SIZE * 10,
      timeframe    |-> "medium_term" ]

getBullMarketStrategy(c) ==
    [ type         |-> "bull_market",
      confidence   |-> calculateConfidence(c.analysis, "bull"),
      entryPrice   |-> c.price * 995,
      stopLoss     |-> c.price * 920,
      targets      |-> <<c.price * 1150, c.price * 1300, c.price * 1500>>,
      positionSize |-> BULL_MAX_POSITION_SIZE * 10,
      timeframe    |-> "medium_term" ]

\* the volatile plan taking the whole bull-market position size
getVolatileBullStrategy_fullSize(c) ==
    [ type         |-> "volatile_bull",
      confidence   |-> calculateConfidence(c.analysis, "volatile_bull"),
      entryPrice   |-> c.price * 980,
      stopLoss     |-> c.price * 940,
      targets      |-> <<c.price * 1120, c.price * 1250, c.price * 1400>>,
      positionSize |-> BULL_MAX_POSITION_SIZE * 10,
      timeframe    |-> "short_term" ]

getVolatileBullStrategy(c) ==
    [ type         |-> "volatile_bull",
      confidence   |-> calculateConfidence(c.analysis, "volatile_bull"),
      entryPrice   |-> c.price * 980,
      stopLoss     |-> c.price * 940,
      targets      |-> <<c.price * 1120, c.price * 1250, c.price * 1400>>,
      positionSize |-> BULL_MAX_POSITION_SIZE * 7,
      timeframe    |-> "short_term" ]

getBearMarketStrategy(c) ==
    [ type         |-> "bear_market",
      confidence   |-> calculateConfidence(c.analysis, "bear"),
      entryPrice   |-> c.price * 985,
      stopLoss     |-> c.price * 950,
      targets      |-> <<c.price * 1080, c.price * 1150, c.price * 1220>>,
      positionSize |-> BEAR_MAX_POSITION_SIZE * 10,
      timeframe    |-> "short_term" ]

getSidewaysStrategy(c) ==
    LET support    == c.analysis.supportResistance.support1
        resistance == c.analysis.supportResistance.resistance1
    IN  [ type         |-> "range_trading",
          confidence   |-> calculateConfidence(c.analysis, "sideways"),
          entryPrice   |-> support * 1020,
          stopLoss     |-> support * 970,
          targets      |-> <<resistance * 950, resistance * 980>>,
          positionSize |-> SIDEWAYS_MAX_POSITION_SIZE * 10,
          timeframe    |-> "short_term" ]

(* The three synthesizers below are called by adaptStrategyToMarket but    *)
(* their bodies are not part of the sources; they follow section 4.5 of    *)
(* the design (entry below price, stop below entry, ascending targets      *)
(* above price, x0.7 position size for the volatile variant; sideways      *)
(* regimes anchored to support and resistance).                            *)

getVolatileBearStrategy(c) ==
    [ type         |-> "volatile_bear",
      confidence   |-> calculateConfidence(c.analysis, "volatile_bear"),
      entryPrice   |-> c.price * 970,
      stopLoss     |-> c.price * 940,
      targets      |-> <<c.price * 1050, c.price * 1100>>,
      positionSize |-> BEAR_MAX_POSITION_SIZE * 7,
      timeframe    |-> "short_term" ]

getVolatileSidewaysStrategy(c) ==
    LET support    == c.analysis.supportResistance.support1
        resistance == c.analysis.supportResistance.resistance1
    IN  [ type         |-> "volatile_range",
          confidence   |-> calculateConfidence(c.analysis, "volatile_sideways"),
          entryPrice   |-> support * 1020,
          stopLoss     |-> support * 970,
          targets      |-> <<resistance * 950, resistance * 980>>,
          positionSize |-> SIDEWAYS_MAX_POSITION_SIZE * 7,
          timeframe    |-> "short_term" ]

getDefaultStrategy(c) ==
    [ type         |-> "default",
      confidence   |-> calculateConfidence(c.analysis, "default"),
      entryPrice   |-> c.price * 990,
      stopLoss     |-> c.price * 940,
      targets      |-> <<c.price * 1100, c.price * 1200>>,
      positionSize |-> SIDEWAYS_MAX_POSITION_SIZE * 10,
      timeframe    |-> "short_term" ]

MakeScored(c, adaptedScore, riskLevel, strategy, regime) ==
    [ symbol       |-> c.symbol,
      price        |-> c.price,
      analysis     |-> c.analysis,
      adaptedScore |-> adaptedScore,
      riskLevel    |-> riskLevel,
      strategy     |-> strategy,
      marketRegime |-> regime ]

\* the default branch tagging its result 'neutral' instead of the label given
adaptStrategyToMarket_defaultTagsNeutral(c, regime) ==
    LET baseAnalysis == c.analysis
    IN  CASE regime = "bull_stable" ->
               MakeScored(c, calculateBullMarketScore(baseAnalysis), "low",
                          getBullMarketStrategy(c), regime)
          [] regime = "bull_volatile" ->
               MakeScored(c, calculateVolatileBullScore(baseAnalysis), "medium",
                          getVolatileBullStrategy(c), regime)
          [] regime = "bear_stable" ->
               MakeScored(c, calculateBearMarketScore(baseAnalysis), "high",
                          getBearMarketStrategy(c), regime)
          [] regime = "bear_volatile" ->
               MakeScored(c, calculateVolatileBearScore(baseAnalysis), "very_high",
                          getVolatileBearStrategy(c), regime)
          [] regime = "sideways_stable" ->
               MakeScored(c, calculateSidewaysScore(baseAnalysis), "medium",
                          getSidewaysStrategy(c), regime)
          [] regime = "volatile_sideways" ->
               MakeScored(c, calculateVolatileSidewaysScore(baseAnalysis), "high",
                          getVolatileSidewaysStrategy(c), regime)
          [] OTHER ->
               MakeScored(c, calculateScore(baseAnalysis), "medium",
                          getDefaultStrategy(c), "neutral")

adaptStrategyToMarket(c, regime) ==
    LET baseAnalysis == c.analysis
    IN  CASE regime = "bull_stable" ->
               MakeScored(c, calculateBullMarketScore(baseAnalysis), "low",
                          getBullMarketStrategy(c), regime)
          [] regime = "bull_volatile" ->
               MakeScored(c, calculateVolatileBullScore(baseAnalysis), "medium",
                          getVolatileBullStrategy(c), regime)
          [] regime = "bear_stable" ->
               MakeScored(c, calculateBearMarketScore(baseAnalysis), "high",
                          getBearMarketStrategy(c), regime)
          [] regime = "bear_volatile" ->
               MakeScored(c, calculateVolatileBearScore(baseAnalysis), "very_high",
                          getVolatileBearStrategy(c), regime)
          [] regime = "sideways_stable" ->
               MakeScored(c, calculateSidewaysScore(baseAnalysis), "medium",
                          getSidewaysStrategy(c), regime)
          [] regime = "volatile_sideways" ->
               MakeScored(c, calculateVolatileSidewaysScore(baseAnalysis), "high",
                          getVolatileSidewaysStrategy(c), regime)
          [] OTHER ->
               MakeScored(c, calculateScore(baseAnalysis), "medium",
                          getDefaultStrategy(c), regime)

---------------------------------------------------------------------------
(* Input domains of the classifier *)

\* values a ratio field of a snapshot is drawn from (hundredths), around
\* every threshold the classifier compares against
RatioValues == {NaN} \cup {Num(Pct(h)) : h \in {0, 50, 65, 66, 100}}
TrendStrengthValues == {NaN} \cup {Num(Pct(h)) : h \in {0, 14, 15, 19, 20, 50}}
StrengthValues == {NaN} \cup {Num(Pct(h)) : h \in {39, 40, 50, 60, 61}}
VolumeTrends == {"increasing", "stable", "decreasing"}
VolatilityRegimes == {"high", "normal", "low"}

MakeAnalysis(trend, strength, volumeTrend, volatilityRegime) ==
    [ trend      |-> trend,
      volatility |-> [regime |-> volatilityRegime],
      volume     |-> [trend |-> volumeTrend],
      strength   |-> [strength |-> strength] ]

\* every MarketSnapshot over the value grids, its fields independent
Snapshots ==
    { MakeAnalysis([ bullishRatio  |-> b,
                     bearishRatio  |-> r,
                     neutralRatio  |-> NaN,
                     trendStrength |-> t,
                     direction     |-> IF Gt(b, r) THEN "bullish" ELSE "bearish" ],
                   s, v, o) :
        b \in RatioValues, r \in RatioValues, t \in TrendStrengthValues,
        s \in StrengthValues, v \in VolumeTrends, o \in VolatilityRegimes }

RECURSIVE SeqsUpTo(_, _)
SeqsUpTo(S, n) ==
    IF n = 0 THEN {<<>>}
    ELSE LET shorter == SeqsUpTo(S, n - 1)
         IN  shorter \cup {Append(s, x) : s \in {q \in shorter : Len(q) = n - 1}, x \in S}

Universes == SeqsUpTo(Changes, MaxTickers)

NoAnalysis == MakeAnalysis([ bullishRatio |-> NaN, bearishRatio |-> NaN,
                             neutralRatio |-> NaN, trendStrength |-> NaN,
                             direction |-> "bearish" ],
                           NaN, "stable", "normal")

NoCoin == [symbol |-> "none"]
NoScored == [symbol |-> "none"]
\* no details modal on screen
NoModal == [open |-> FALSE]

\* the fields of a detector that has fetched nothing yet (constructor), with
\* nothing in flight and nothing persisted
NoPass == [pc |-> "none"]

\* the page as loaded with empty storage: notifications enabled
\* (enhanced-config.js:108), no alert shown, no price alert, empty watchlist
PageAtRest ==
    /\ enableNotifications = TRUE
    /\ alertPass = NoPass
    /\ sent = <<>>
    /\ alertsContainer = <<>>
    /\ monitorAlerts = <<>>
    /\ priceAlerts = <<>>
    /\ checkPass = NoPass
    /\ watchlist = <<>>

DetectorAtRest ==
    /\ market = "none"
    /\ coins = <<>>
    /\ filteredCoins = <<>>
    /\ cycles = EmptyBag
    /\ slowPending = FALSE
    /\ errorShown = FALSE
    /\ previousMarketRegime = "null"
    /\ regimeChanged = "none"

---------------------------------------------------------------------------
(* Specification of the classifier: a snapshot is either given directly    *)
(* (determineMarketRegime is a method of its argument alone) or built by   *)
(* analyzeMarketConditions from a ticker universe, then classified.        *)

InitRegime ==
    /\ \/ /\ pc = "analysed"
          /\ tickers = <<>>
          /\ analysis \in Snapshots
       \/ /\ pc = "fetched"
          /\ tickers \in Universes
          /\ analysis = NoAnalysis
    /\ marketRegime = "unset"
    /\ coin = NoCoin
    /\ scored = NoScored
    /\ marketMetrics = EmptyMetrics
    /\ modal = NoModal
    /\ DetectorAtRest
    /\ PageAtRest

\* analyzeMarketConditions: the trend group from analyzeTrendDirection; the
\* strength, volume and volatility groups come from analyzers whose bodies
\* are not part of the sources and are drawn from their value sets
AnalyzeMarketConditions ==
    /\ pc = "fetched"
    /\ \E s \in StrengthValues, v \in VolumeTrends, o \in VolatilityRegimes :
          analysis' = MakeAnalysis(analyzeTrendDirection(tickers), s, v, o)
    /\ tickers' = <<>>      \* a local of detectMarketRegime, gone after the analysis
    /\ pc' = "analysed"
    /\ UNCHANGED <<marketRegime, coin, scored, marketMetrics, modal, detectorVars>>
    /\ UNCHANGED pageVars

DetermineMarketRegime ==
    /\ pc = "analysed"
    /\ marketRegime' = determineMarketRegime(analysis)
    /\ pc' = "classified"
    /\ UNCHANGED <<tickers, analysis, coin, scored, marketMetrics, modal, detectorVars>>
    /\ UNCHANGED pageVars

NextRegime == AnalyzeMarketConditions \/ DetermineMarketRegime

SpecRegime == InitRegime /\ [][NextRegime]_vars

---------------------------------------------------------------------------
(* Input domains of the scoring and strategy engine.  The per-asset        *)
(* analyzer (analyzeCoins and the indicator library) is not part of the    *)
(* sources: its records are drawn from the value sets the scorers and the  *)
(* synthesizers read, shaped as section 4.1 of the design describes.       *)

\* RSI: > 70 overbought, < 30 oversold, else neutral; trend bullish iff > 50
RsiResult(value) ==
    [ value  |-> value,
      signal |-> IF value > 70 THEN "overbought"
                 ELSE IF value < 30 THEN "oversold" ELSE "neutral",
      trend  |-> IF value > 50 THEN "bullish" ELSE "bearish" ]

RsiValues == {25, 35, 45, 60, 80}
LiquidityPercentages == {40, 80, 120}
PriceChanges == {-3, 2, 15}
OwnVolatilities == {"low", "high"}
Prices == {100, 2500}
\* support1 and resistance1 in percent of the price: the lowest low is not
\* above the price, the highest high not below it
SupportPercents == {90, 100}
ResistancePercents == {105, 110}

Indicators ==
    [ rsi   : {RsiResult(v) : v \in RsiValues},
      macd  : [signal : {"bullish", "bearish"}],
      liquidityFlow : [trend : {"increasing", "decreasing"},
                       percentage : LiquidityPercentages],
      buyingPower : [strength : {"high", "low"}],
      movingAverages : [signal : {"buy", "sell"}],
      accumulationDistribution : [trend : {"accumulation", "distribution"}],
      moneyFlowIndex : [flow : {"positive", "negative"},
                        signal : {"overbought", "neutral"}] ]

BullishIndicators ==
    [ rsi |-> RsiResult(60), macd |-> [signal |-> "bullish"],
      liquidityFlow |-> [trend |-> "increasing", percentage |-> 120],
      buyingPower |-> [strength |-> "high"],
      movingAverages |-> [signal |-> "buy"],
      accumulationDistribution |-> [trend |-> "accumulation"],
      moneyFlowIndex |-> [flow |-> "positive", signal |-> "neutral"] ]

BearishIndicators ==
    [ rsi |-> RsiResult(25), macd |-> [signal |-> "bearish"],
      liquidityFlow |-> [trend |-> "decreasing", percentage |-> 40],
      buyingPower |-> [strength |-> "low"],
      movingAverages |-> [signal |-> "sell"],
      accumulationDistribution |-> [trend |-> "distribution"],
      moneyFlowIndex |-> [flow |-> "negative", signal |-> "neutral"] ]

MakeCoin(ind, price, supPct, resPct, change, vol) ==
    [ symbol   |-> "BTC",
      price    |-> price,
      analysis |->
        [ rsi |-> ind.rsi, macd |-> ind.macd, liquidityFlow |-> ind.liquidityFlow,
          buyingPower |-> ind.buyingPower, movingAverages |-> ind.movingAverages,
          accumulationDistribution |-> ind.accumulationDistribution,
          moneyFlowIndex |-> ind.moneyFlowIndex,
          supportResistance |->
            [ support1    |-> (price * supPct) \div 100,
              resistance1 |-> (price * resPct) \div 100,
              nearSupport |-> supPct >= 98,
              nearResistance |-> resPct <= 105 ],
          priceChange24h |-> change,
          volatility |-> vol ] ]

\* every indicator bundle at one price row, and every price row at the two
\* one-sided bundles: scores read only the indicators, plans only the prices
Coins ==
    { MakeCoin(i, 100, 90, 110, ch, vo) :
        i \in Indicators, ch \in PriceChanges, vo \in OwnVolatilities }
    \cup
    { MakeCoin(i, p, sp, rp, ch, vo) :
        i \in {BullishIndicators, BearishIndicators}, p \in Prices,
        sp \in SupportPercents, rp \in ResistancePercents,
        ch \in PriceChanges, vo \in OwnVolatilities }

\* the seven regimes and a label outside them (the default branch)
RegimeLabels == Regimes \cup {"unknown"}

---------------------------------------------------------------------------
(* Specification of the scoring and strategy engine: one analysed coin is  *)
(* adapted to a regime (loadData maps adaptStrategyToMarket over the       *)
(* analysed coins with this.marketRegime).                                 *)

InitStrategy ==
    /\ pc = "coin"
    /\ coin \in Coins
    /\ marketRegime = "unset"
    /\ scored = NoScored
    /\ tickers = <<>>
    /\ analysis = NoAnalysis
    /\ marketMetrics = EmptyMetrics
    /\ modal = NoModal
    /\ DetectorAtRest
    /\ PageAtRest

AdaptStrategyToMarket ==
    /\ pc = "coin"
    /\ \E r \in RegimeLabels :
          /\ marketRegime' = r
          /\ scored' = adaptStrategyToMarket(coin, r)
    /\ pc' = "scored"
    /\ UNCHANGED <<tickers, analysis, coin, marketMetrics, modal, detectorVars>>
    /\ UNCHANGED pageVars

NextStrategy == AdaptStrategyToMarket

SpecStrategy == InitStrategy /\ [][NextStrategy]_vars

\* the regimes whose synthesizer is defined in the sources
SourcedStrategyRegimes == {"bull_stable", "bull_volatile", "bear_stable", "sideways_stable"}

AdaptToSourcedRegime ==
    /\ pc = "coin"
    /\ \E r \in SourcedStrategyRegimes :
          /\ marketRegime' = r
          /\ scored' = adaptStrategyToMarket(coin, r)
    /\ pc' = "scored"
    /\ UNCHANGED <<tickers, analysis, coin, marketMetrics, modal, detectorVars>>
    /\ UNCHANGED pageVars

NextSourced == AdaptToSourcedRegime

\* SpecStrategy restricted to the plans the sources define
SpecSourced == InitStrategy /\ [][NextSourced]_vars

---------------------------------------------------------------------------
(* Specification of the plan confidence: calculateConfidence is reached    *)
(* through the four synthesizers of the sources, which pass the market     *)
(* types 'bull', 'volatile_bull', 'bear' and 'sideways'; it reads its      *)
(* analysis argument and this.marketMetrics.                               *)

\* rsi records over every signal calculateConfidence tests, 'bullish' included
ConfidenceRsi ==
    {RsiResult(v) : v \in {25, 60, 80}}
        \cup {[value |-> 60, signal |-> "bullish", trend |-> "bullish"]}

ConfidenceCoins ==
    { MakeCoin([BullishIndicators EXCEPT !.rsi = r, !.macd = m,
                                         !.liquidityFlow.trend = l,
                                         !.buyingPower = b],
               100, sp, rp, 2, "low") :
        r \in ConfidenceRsi, m \in [signal : {"bullish", "bearish"}],
        l \in {"increasing", "decreasing"}, b \in [strength : {"high", "low"}],
        sp \in SupportPercents, rp \in ResistancePercents }

\* this.marketMetrics: {} or a snapshot around the 0.7 test
MetricsSamples ==
    {EmptyMetrics} \cup
    { MakeAnalysis([ bullishRatio  |-> b,
                     bearishRatio  |-> Num(0),
                     neutralRatio  |-> Num(0),
                     trendStrength |-> b,
                     direction     |-> "bullish" ],
                   Num(Pct(50)), "stable", o) :
        b \in {NaN, Num(Pct(70)), Num(Pct(71))}, o \in {"high", "normal"} }

InitConfidence ==
    /\ pc = "coin"
    /\ coin \in ConfidenceCoins
    /\ marketMetrics \in MetricsSamples
    /\ marketRegime = "unset"
    /\ scored = NoScored
    /\ tickers = <<>>
    /\ analysis = NoAnalysis
    /\ modal = NoModal
    /\ DetectorAtRest
    /\ PageAtRest

NextConfidence == AdaptToSourcedRegime

SpecConfidence == InitConfidence /\ [][NextConfidence]_vars

---------------------------------------------------------------------------
(* The coin details modal.  showCoinDetails is declared twice (1157 and    *)
(* 2100); the later function declaration is the one bound to the name, so  *)
(* a click on a coin builds the modal of createCoinDetailsModal, whose     *)
(* risk row is getRiskLevel(coin.adaptedScore).  The labels it prints are  *)
(* named here by the tier they spell: low, medium, high, very_high and     *)
(* "undefined" for the label of a falsy score.                             *)

getRiskLevel(score) ==
    IF score = 0 THEN "undefined"
    ELSE IF score >= Points(80) THEN "low"
    ELSE IF score >= Points(60) THEN "medium"
    ELSE IF score >= Points(40) THEN "high"
    ELSE "very_high"

createCoinDetailsModal(c) ==
    [ open         |-> TRUE,
      symbol       |-> c.symbol,
      adaptedScore |-> c.adaptedScore,
      riskLevel    |-> getRiskLevel(c.adaptedScore) ]

\* every indicator bundle at one price row and one 24h change
DetailCoins == { MakeCoin(i, 100, 90, 110, 2, "low") : i \in Indicators }

InitDetails ==
    /\ pc = "coin"
    /\ coin \in DetailCoins
    /\ marketRegime = "unset"
    /\ scored = NoScored
    /\ tickers = <<>>
    /\ analysis = NoAnalysis
    /\ marketMetrics = EmptyMetrics
    /\ modal = NoModal
    /\ DetectorAtRest
    /\ PageAtRest

\* showCoinDetails(symbol) on the scored coin
ShowCoinDetails ==
    /\ pc = "scored"
    /\ modal' = createCoinDetailsModal(scored)
    /\ pc' = "shown"
    /\ UNCHANGED <<tickers, analysis, marketRegime, coin, scored, marketMetrics, detectorVars>>
    /\ UNCHANGED pageVars

NextDetails == AdaptStrategyToMarket \/ ShowCoinDetails

\* one coin is scored under a regime and its details are opened
SpecDetails == InitDetails /\ [][NextDetails]_vars

---------------------------------------------------------------------------
(* The running detector: loadData cycles, the timers and the F5 handler.   *)
(*                                                                         *)
(* A JavaScript callback runs to its next await without interruption, so   *)
(* one action is one such run: it starts where a promise resolves and      *)
(* ends where the callback suspends or returns.  Every fetch answers from  *)
(* `market`, the data the exchange holds when the response arrives, and    *)
(* analyzeCoins returns the analysis of that data; the fetchers themselves *)
(* and analyzeCoins, assignRanks and filterCoins are not part of the       *)
(* sources.                                                                *)

\* most loadData invocations in flight at once
MaxInFlight == 2

\* the exchange data the model draws from
MarketIds == {"rally", "slump"}

\* the market snapshot analyzeMarketConditions builds from the data
Overview(d) ==
    IF d = "rally"
    THEN MakeAnalysis([ bullishRatio  |-> Num(Pct(100)),
                        bearishRatio  |-> Num(0),
                        neutralRatio  |-> Num(0),
                        trendStrength |-> Num(Pct(100)),
                        direction     |-> "bullish" ],
                      Num(Pct(61)), "increasing", "normal")
    ELSE MakeAnalysis([ bullishRatio  |-> Num(0),
                        bearishRatio  |-> Num(Pct(100)),
                        neutralRatio  |-> Num(0),
                        trendStrength |-> Num(Pct(100)),
                        direction     |-> "bearish" ],
                      Num(Pct(39)), "decreasing", "normal")

Named(symbol, c) == [c EXCEPT !.symbol = symbol]

\* the analysed coins analyzeCoins returns for the data, in fetch order
AnalysedCoins(d) ==
    IF d = "rally"
    THEN << Named("BTC", MakeCoin(BearishIndicators, 2500, 90, 110, -3, "low")),
            Named("ETH", MakeCoin(BullishIndicators, 100, 100, 105, 15, "low")),
            Named("SOL", MakeCoin(BullishIndicators, 100, 90, 110, 2, "high")) >>
    ELSE << Named("BTC", MakeCoin(BullishIndicators, 2500, 90, 110, 2, "low")),
            Named("ETH", MakeCoin(BearishIndicators, 100, 100, 105, -3, "low")),
            Named("SOL", MakeCoin(BearishIndicators, 100, 90, 110, -3, "high")) >>

\* the regime assigned from the new snapshot while this.marketMetrics gets
\* the snapshot of other data
detectMarketRegime_otherSnapshot(d) ==
    [marketRegime |-> determineMarketRegime(Overview(d)),
     marketMetrics |-> Overview(CHOOSE e \in MarketIds : e # d)]

\* what a successful detectMarketRegime assigns (lines 26-29)
detectMarketRegime(d) ==
    LET a == Overview(d)
    IN  [marketRegime |-> determineMarketRegime(a), marketMetrics |-> a]

\* Array.prototype.sort with (a, b) => b.adaptedScore - a.adaptedScore: a
\* stable sort, descending
\* a sort that moves a coin behind the later coins of equal score
RECURSIVE InsertByScore_afterEquals(_, _)
InsertByScore_afterEquals(x, s) ==
    IF s = <<>> THEN <<x>>
    ELSE IF Head(s).adaptedScore >= x.adaptedScore
         THEN <<Head(s)>> \o InsertByScore_afterEquals(x, Tail(s))
         ELSE <<x>> \o s

RECURSIVE InsertByScore(_, _)
InsertByScore(x, s) ==
    IF s = <<>> THEN <<x>>
    ELSE IF Head(s).adaptedScore > x.adaptedScore
         THEN <<Head(s)>> \o InsertByScore(x, Tail(s))
         ELSE <<x>> \o s

RECURSIVE SortByScore(_)
SortByScore(s) ==
    IF s = <<>> THEN <<>> ELSE InsertByScore(Head(s), SortByScore(Tail(s)))

\* assignRanks: rank i for the i-th coin of the sorted list
assignRanks(s) == [i \in 1..Len(s) |-> [rank |-> i] @@ s[i]]

\* the setItem of the change branch (line 1024) left out
hasMarketRegimeChanged_changeNotPersisted(previousRegime, currentRegime) ==
    IF previousRegime # "null" /\ previousRegime # currentRegime
    THEN [changed |-> "true", persisted |-> previousRegime]
    ELSE IF previousRegime = "null"
    THEN [changed |-> "false", persisted |-> currentRegime]
    ELSE [changed |-> "false", persisted |-> previousRegime]

\* hasMarketRegimeChanged: the value returned and the value persisted
hasMarketRegimeChanged(previousRegime, currentRegime) ==
    IF previousRegime # "null" /\ previousRegime # currentRegime
    THEN [changed |-> "true", persisted |-> currentRegime]
    ELSE IF previousRegime = "null"
    THEN [changed |-> "false", persisted |-> currentRegime]
    ELSE [changed |-> "false", persisted |-> previousRegime]

\* a loadData invocation: where it is suspended and, until it scores, the
\* regime its own detectMarketRegime determined ("failed" if it threw)
NewCycle == [pc |-> "detecting", detected |-> "pending"]

\* the invocation suspended in checkAndSendAlerts
Alerting == [pc |-> "alerting", detected |-> "done"]

InFlight == BagToSet(cycles)
Replace(c, d) == (cycles (-) SetToBag({c})) (+) SetToBag({d})
Remove(c) == cycles (-) SetToBag({c})

\* new EnhancedCryptoPumpDetector(): the constructor's fields, and init()
\* has called loadData, which is suspended in detectMarketRegime
Init ==
    /\ market \in MarketIds
    /\ marketRegime = "neutral"
    /\ marketMetrics = EmptyMetrics
    /\ coins = <<>>
    /\ filteredCoins = <<>>
    /\ cycles = SetToBag({NewCycle})
    /\ slowPending = FALSE
    /\ errorShown = FALSE
    /\ previousMarketRegime = "null"
    /\ regimeChanged = "none"
    /\ tickers = <<>>
    /\ analysis = NoAnalysis
    /\ coin = NoCoin
    /\ scored = NoScored
    /\ pc = "running"
    /\ modal = NoModal
    /\ PageAtRest

singleVars == <<tickers, analysis, coin, scored, pc, modal>>

\* the exchange data changes
MarketMoves ==
    /\ market' \in MarketIds \ {market}
    /\ UNCHANGED <<marketRegime, marketMetrics, coins, filteredCoins, cycles,
                   slowPending, errorShown, previousMarketRegime, regimeChanged,
                   singleVars>>
    /\ UNCHANGED pageVars

\* loadData entered: showLoading(true), then suspended in detectMarketRegime
StartLoadData ==
    /\ BagCardinality(cycles) < MaxInFlight
    /\ cycles' = cycles (+) SetToBag({NewCycle})
    /\ UNCHANGED <<market, marketRegime, marketMetrics, coins, filteredCoins,
                   slowPending, errorShown, previousMarketRegime, regimeChanged,
                   singleVars>>
    /\ UNCHANGED pageVars

\* setInterval(() => this.loadData(), NORMAL_UPDATE)
NormalUpdateTimer == StartLoadData

\* keydown F5: window.detector.loadData()
F5Pressed == StartLoadData

\* the overview fetch of the cycle's detectMarketRegime resolves: regime and
\* metrics are assigned, or the fetch or the analysis throws and nothing is;
\* loadData goes on to fetchOKXTickers either way
LoadData_Detected(c) ==
    /\ c.pc = "detecting"
    /\ \/ /\ marketRegime' = detectMarketRegime(market).marketRegime
          /\ marketMetrics' = detectMarketRegime(market).marketMetrics
          /\ cycles' = Replace(c, [c EXCEPT !.pc = "tickers",
                                            !.detected = detectMarketRegime(market).marketRegime])
       \/ /\ UNCHANGED <<marketRegime, marketMetrics>>
          /\ cycles' = Replace(c, [c EXCEPT !.pc = "tickers", !.detected = "failed"])
    /\ UNCHANGED <<market, coins, filteredCoins, slowPending, errorShown,
                   previousMarketRegime, regimeChanged, singleVars>>
    /\ UNCHANGED pageVars

\* fetchOKXTickers resolves; loadData goes on to fetchCandleData
LoadData_TickersFetched(c) ==
    /\ c.pc = "tickers"
    /\ cycles' = Replace(c, [c EXCEPT !.pc = "candles"])
    /\ UNCHANGED <<market, marketRegime, marketMetrics, coins, filteredCoins,
                   slowPending, errorShown, previousMarketRegime, regimeChanged,
                   singleVars>>
    /\ UNCHANGED pageVars

\* fetchCandleData resolves; loadData goes on to analyzeCoins
LoadData_CandlesFetched(c) ==
    /\ c.pc = "candles"
    /\ cycles' = Replace(c, [c EXCEPT !.pc = "analysing"])
    /\ UNCHANGED <<market, marketRegime, marketMetrics, coins, filteredCoins,
                   slowPending, errorShown, previousMarketRegime, regimeChanged,
                   singleVars>>
    /\ UNCHANGED pageVars

\* the catch block emptying the list
LoadData_FetchFailed_listCleared(c) ==
    /\ c.pc \in {"tickers", "candles"}
    /\ cycles' = Remove(c)
    /\ errorShown' = TRUE
    /\ coins' = <<>>
    /\ UNCHANGED <<market, marketRegime, marketMetrics, filteredCoins,
                   slowPending, previousMarketRegime, regimeChanged, singleVars>>
    /\ UNCHANGED pageVars

\* fetchOKXTickers or fetchCandleData rejects: catch (showError) and
\* finally; nothing was assigned
LoadData_FetchFailed(c) ==
    /\ c.pc \in {"tickers", "candles"}
    /\ cycles' = Remove(c)
    /\ errorShown' = TRUE
    /\ UNCHANGED <<market, marketRegime, marketMetrics, coins, filteredCoins,
                   slowPending, previousMarketRegime, regimeChanged, singleVars>>
    /\ UNCHANGED pageVars

\* analyzeCoins rejects: catch (showError) and finally; the assignment of
\* line 545 did not happen
LoadData_AnalysisFailed(c) ==
    /\ c.pc = "analysing"
    /\ cycles' = Remove(c)
    /\ errorShown' = TRUE
    /\ UNCHANGED <<market, marketRegime, marketMetrics, coins, filteredCoins,
                   slowPending, previousMarketRegime, regimeChanged, singleVars>>
    /\ UNCHANGED pageVars

\* analyzeCoins resolves and lines 545-556 run without suspension: assign
\* the analysed coins, map adaptStrategyToMarket with this.marketRegime,
\* sort, assignRanks, filterCoins; then checkAndSendAlerts suspends
LoadData_Published(c) ==
    /\ c.pc = "analysing"
    /\ LET analysed == AnalysedCoins(market)
           adapted  == [i \in 1..Len(analysed) |->
                            adaptStrategyToMarket(analysed[i], marketRegime)]
           ranked   == assignRanks(SortByScore(adapted))
       IN  /\ coins' = ranked
           /\ filteredCoins' = ranked
    /\ cycles' = Replace(c, Alerting)
    /\ UNCHANGED <<market, marketRegime, marketMetrics, slowPending, errorShown,
                   previousMarketRegime, regimeChanged, singleVars>>
    /\ UNCHANGED pageVars

\* analyzeCoins resolves and the scoring throws: line 545 has assigned the
\* analysed coins when adaptStrategyToMarket (line 549; it reads analysis
\* fields unguarded and calls scorers and synthesizers that may throw)
\* raises; catch (showError) and finally
LoadData_Threw(c) ==
    /\ c.pc = "analysing"
    /\ coins' = AnalysedCoins(market)
    /\ cycles' = Remove(c)
    /\ errorShown' = TRUE
    /\ UNCHANGED <<market, marketRegime, marketMetrics, filteredCoins, slowPending,
                   previousMarketRegime, regimeChanged, singleVars>>
    /\ UNCHANGED pageVars

\* checkAndSendAlerts has sent its alerts and ends with
\* hasMarketRegimeChanged, which persists the regime (its return value only
\* selects whether a market_change alert is sent); loadData sets lastUpdate
\* and returns (finally)
LoadData_Alerted(c) ==
    /\ c.pc = "alerting"
    /\ previousMarketRegime' =
          hasMarketRegimeChanged(previousMarketRegime, marketRegime).persisted
    /\ cycles' = Remove(c)
    /\ UNCHANGED <<market, marketRegime, marketMetrics, coins, filteredCoins,
                   slowPending, errorShown, regimeChanged, singleVars>>
    /\ UNCHANGED pageVars

\* setInterval(() => this.detectMarketRegime(), SLOW_UPDATE)
SlowUpdateTimer ==
    /\ ~slowPending
    /\ slowPending' = TRUE
    /\ UNCHANGED <<market, marketRegime, marketMetrics, coins, filteredCoins, cycles,
                   errorShown, previousMarketRegime, regimeChanged, singleVars>>
    /\ UNCHANGED pageVars

\* the overview fetch of the timer's detectMarketRegime resolves or throws
SlowUpdate_Detected ==
    /\ slowPending
    /\ slowPending' = FALSE
    /\ \/ /\ marketRegime' = detectMarketRegime(market).marketRegime
          /\ marketMetrics' = detectMarketRegime(market).marketMetrics
       \/ UNCHANGED <<marketRegime, marketMetrics>>
    /\ UNCHANGED <<market, coins, filteredCoins, cycles, errorShown,
                   previousMarketRegime, regimeChanged, singleVars>>
    /\ UNCHANGED pageVars

\* setTimeout of showError: the message is removed after five seconds
ErrorExpired ==
    /\ errorShown
    /\ errorShown' = FALSE
    /\ UNCHANGED <<market, marketRegime, marketMetrics, coins, filteredCoins, cycles,
                   slowPending, previousMarketRegime, regimeChanged, singleVars>>
    /\ UNCHANGED pageVars

LoadDataStep ==
    \E c \in InFlight :
        \/ LoadData_Detected(c)
        \/ LoadData_TickersFetched(c)
        \/ LoadData_CandlesFetched(c)
        \/ LoadData_FetchFailed(c)
        \/ LoadData_AnalysisFailed(c)
        \/ LoadData_Published(c)
        \/ LoadData_Threw(c)
        \/ LoadData_Alerted(c)

Next ==
    \/ MarketMoves
    \/ NormalUpdateTimer
    \/ F5Pressed
    \/ LoadDataStep
    \/ SlowUpdateTimer
    \/ SlowUpdate_Detected
    \/ ErrorExpired

Spec == Init /\ [][Next]_vars

---------------------------------------------------------------------------
(* The detector on frozen exchange data: the state earlier cycles left     *)
(* behind is arbitrary, the data every fetch of the following cycles       *)
(* answers from never changes.                                             *)

\* the list a cycle publishes from data d under the regime r and the
\* metrics in force
PublishedList(d, r) ==
    assignRanks(SortByScore([i \in 1..Len(AnalysedCoins(d)) |->
                                adaptStrategyToMarket(AnalysedCoins(d)[i], r)]))

InitFrozen ==
    /\ market \in MarketIds
    /\ \E d \in MarketIds \cup {"none"} :
          IF d = "none"
          THEN marketRegime = "neutral" /\ marketMetrics = EmptyMetrics
          ELSE /\ marketRegime = determineMarketRegime(Overview(d))
               /\ marketMetrics = Overview(d)
    /\ coins \in {<<>>} \cup {AnalysedCoins(e) : e \in MarketIds}
                      \cup {PublishedList(e, marketRegime) : e \in MarketIds}
    /\ filteredCoins \in {<<>>} \cup {PublishedList(e, marketRegime) : e \in MarketIds}
    /\ cycles = SetToBag({NewCycle})
    /\ slowPending = FALSE
    /\ errorShown = FALSE
    /\ previousMarketRegime \in {"null", marketRegime}
    /\ regimeChanged = "none"
    /\ tickers = <<>>
    /\ analysis = NoAnalysis
    /\ coin = NoCoin
    /\ scored = NoScored
    /\ pc = "running"
    /\ modal = NoModal
    /\ PageAtRest

NextFrozen ==
    \/ NormalUpdateTimer
    \/ F5Pressed
    \/ LoadDataStep
    \/ SlowUpdateTimer
    \/ SlowUpdate_Detected
    \/ ErrorExpired

SpecFrozen == InitFrozen /\ [][NextFrozen]_vars

---------------------------------------------------------------------------
(* hasMarketRegimeChanged on its own: detections set this.marketRegime,    *)
(* calls compare it with the persisted regime.                             *)

InitRegimeAlert ==
    /\ pc = "constructed"
    /\ marketRegime = "neutral"
    /\ marketMetrics = EmptyMetrics
    /\ tickers = <<>>
    /\ analysis = NoAnalysis
    /\ coin = NoCoin
    /\ scored = NoScored
    /\ modal = NoModal
    /\ DetectorAtRest
    /\ PageAtRest

\* a detectMarketRegime that succeeds (line 28)
RegimeDetected ==
    /\ marketRegime' \in Regimes
    /\ pc' = "detected"
    /\ UNCHANGED <<tickers, analysis, coin, scored, marketMetrics, modal, market, coins,
                   filteredCoins, cycles, slowPending, errorShown,
                   previousMarketRegime, regimeChanged>>
    /\ UNCHANGED pageVars

\* this.hasMarketRegimeChanged() at the end of checkAndSendAlerts
HasMarketRegimeChanged ==
    /\ LET r == hasMarketRegimeChanged(previousMarketRegime, marketRegime)
       IN  /\ regimeChanged' = r.changed
           /\ previousMarketRegime' = r.persisted
    /\ pc' = "checked"
    /\ UNCHANGED <<tickers, analysis, marketRegime, coin, scored, marketMetrics, modal,
                   market, coins, filteredCoins, cycles, slowPending, errorShown>>
    /\ UNCHANGED pageVars

NextRegimeAlert == RegimeDetected \/ HasMarketRegimeChanged

SpecRegimeAlert == InitRegimeAlert /\ [][NextRegimeAlert]_vars

---------------------------------------------------------------------------
(* Properties of the Regime Classifier, checked under SpecRegime *)

Classified == pc = "classified"
BullVariants == {"bull_stable", "bull_volatile"}
BearVariants == {"bear_stable", "bear_volatile"}

\* the four rule predicates as the design states them (section 4.3), on
\* the snapshot about to be or just classified
Above(x, hundredths) == ~x.nan /\ x.v * 100 > hundredths * Scale
Below(x, hundredths) == ~x.nan /\ x.v * 100 < hundredths * Scale

IsBull ==
    /\ Above(analysis.trend.bullishRatio, BULL_THRESHOLD)
    /\ Above(analysis.strength.strength, 60)
    /\ analysis.volume.trend = "increasing"

IsBear ==
    /\ Above(analysis.trend.bearishRatio, 100 - BEAR_THRESHOLD)
    /\ Below(analysis.strength.strength, 40)

IsVolatileSideways ==
    /\ analysis.volatility.regime = "high"
    /\ Below(analysis.trend.trendStrength, 20)

IsSidewaysStable ==
    /\ Below(analysis.trend.trendStrength, 15)
    /\ analysis.volatility.regime = "low"

\* C1: a snapshot that satisfies both the rule-1 bull predicate and the
\* sideways_stable predicate is classified as a bull variant, never as
\* sideways_stable (rule 1 precedes rule 4).
C1_BullBeforeSideways ==
    (Classified /\ IsBull /\ IsSidewaysStable)
        => (marketRegime \in BullVariants /\ marketRegime # "sideways_stable")

C1_Witness ==
    /\ Classified
    /\ IsBull
    /\ IsSidewaysStable
    /\ marketRegime = "bull_stable"

\* C2: the classifier returns exactly one of the seven labels, and returns
\* neutral exactly when none of the four rule predicates holds.
C2_TotalAndNeutralIffNoRule ==
    Classified =>
        /\ marketRegime \in Regimes
        /\ (marketRegime = "neutral")
              <=> ~(IsBull \/ IsBear \/ IsVolatileSideways \/ IsSidewaysStable)

\* trend strength exactly 0.2 under high volatility: no rule fires
C2_Witness ==
    /\ Classified
    /\ marketRegime = "neutral"
    /\ analysis.trend.trendStrength = Num(Pct(20))
    /\ analysis.volatility.regime = "high"

\* C3: bullishRatio > BULL_THRESHOLD, strength > 0.6 and an increasing
\* volume trend give bull_volatile under high volatility and bull_stable
\* under every other volatility regime; if one of the three conditions is
\* false no bull variant is returned.
C3_BullRule ==
    Classified =>
        /\ IsBull => marketRegime = (IF analysis.volatility.regime = "high"
                                     THEN "bull_volatile" ELSE "bull_stable")
        /\ ~IsBull => marketRegime \notin BullVariants

C3_Witness ==
    /\ Classified
    /\ IsBull
    /\ marketRegime = "bull_stable"
    /\ analysis.volatility.regime = "normal"

\* C4: when rule 1 does not fire, bearishRatio > 1 - BEAR_THRESHOLD and
\* strength < 0.4 give bear_volatile under high volatility and bear_stable
\* otherwise, whatever the volume trend and the trend strength; a snapshot
\* that also satisfies the volatile_sideways predicate is bear_volatile.
C4_BearRule ==
    (Classified /\ ~IsBull /\ IsBear)
        => marketRegime = (IF analysis.volatility.regime = "high"
                           THEN "bear_volatile" ELSE "bear_stable")

C4_Witness ==
    /\ Classified
    /\ IsBear
    /\ IsVolatileSideways
    /\ marketRegime = "bear_volatile"

\* the snapshot of C5: an exact 50/50 split (trend strength 0), strength
\* 0.5, a volume trend that is not increasing
EvenSplit ==
    /\ analysis.trend.bullishRatio = Num(Pct(50))
    /\ analysis.trend.bearishRatio = Num(Pct(50))
    /\ analysis.trend.trendStrength = Num(0)
    /\ analysis.strength.strength = Num(Pct(50))
    /\ analysis.volume.trend = "stable"

\* C5 as stated: an exact 50/50 split with strength 0.5 and a stable volume
\* trend is classified neutral (none of rules 1 to 4 fires).
C5_EvenSplitNeutral ==
    (Classified /\ EvenSplit) => marketRegime = "neutral"

\* C5 amended: an exact 50/50 split with strength 0.5 and a stable volume
\* trend is classified neutral when the volatility regime is normal; under
\* high volatility rule 3 classifies it volatile_sideways and under low
\* volatility rule 4 classifies it sideways_stable.
C5_EvenSplitByVolatility ==
    (Classified /\ EvenSplit) =>
        marketRegime = CASE analysis.volatility.regime = "normal" -> "neutral"
                         [] analysis.volatility.regime = "high" -> "volatile_sideways"
                         [] analysis.volatility.regime = "low" -> "sideways_stable"

\* reached through analyzeTrendDirection (neutralRatio is then a number)
C5_Witness ==
    /\ Classified
    /\ EvenSplit
    /\ analysis.trend.neutralRatio = Num(0)
    /\ analysis.volatility.regime = "normal"
    /\ marketRegime = "neutral"

---------------------------------------------------------------------------
(* Properties of the scoring and strategy engine, checked under            *)
(* SpecStrategy                                                            *)

Scored == pc = "scored"

RECURSIVE NonDecreasing(_)
NonDecreasing(s) ==
    \/ Len(s) <= 1
    \/ (s[1] <= s[2] /\ NonDecreasing(Tail(s)))

\* C6: for every analysis and each of the seven regimes the adaptedScore
\* of the ScoredAsset lies in the closed range [0,100].
C6_ScoreInRange ==
    (Scored /\ marketRegime \in Regimes)
        => (scored.adaptedScore >= 0 /\ scored.adaptedScore <= Points(100))

\* the bull-market sum exceeds 100 points and the result is 100
C6_Witness ==
    /\ Scored
    /\ marketRegime = "bull_stable"
    /\ BullMarketPoints(coin.analysis) > Points(100)
    /\ scored.adaptedScore = Points(100)

\* C7 as stated: for every coin and every regime the plan satisfies
\* stopLoss < entryPrice < targets[0] <= targets[1] <= ..., the sideways
\* range_trading plan included, for every support/resistance pair.
C7_PlanOrdered ==
    Scored =>
        /\ scored.strategy.stopLoss < scored.strategy.entryPrice
        /\ scored.strategy.entryPrice < scored.strategy.targets[1]
        /\ NonDecreasing(scored.strategy.targets)

\* C8: entryPrice, stopLoss and every target of every plan are strictly
\* positive.
C8_PricesPositive ==
    Scored =>
        /\ scored.strategy.entryPrice > 0
        /\ scored.strategy.stopLoss > 0
        /\ \A i \in DOMAIN scored.strategy.targets : scored.strategy.targets[i] > 0

C8_Witness ==
    /\ Scored
    /\ scored.strategy.type = "range_trading"
    /\ scored.strategy.stopLoss > 0
    /\ scored.strategy.stopLoss < scored.strategy.entryPrice

\* C9: under bull_stable the plan is a fixed multiple of the price p:
\* entry 0.995 p, stop 0.92 p, targets 1.15 p, 1.30 p, 1.50 p; for p = 100
\* that is 99.5, 92 and 115, 130, 150.
C9_BullStablePlan ==
    (Scored /\ marketRegime = "bull_stable") =>
        /\ scored.strategy.entryPrice = coin.price * 995
        /\ scored.strategy.stopLoss = coin.price * 920
        /\ scored.strategy.targets =
              <<coin.price * 1150, coin.price * 1300, coin.price * 1500>>
        /\ coin.price = 100 =>
              /\ scored.strategy.entryPrice = 99500
              /\ scored.strategy.stopLoss = 92000
              /\ scored.strategy.targets = <<115000, 130000, 150000>>

C9_Witness ==
    /\ Scored
    /\ marketRegime = "bull_stable"
    /\ coin.price = 100
    /\ scored.strategy.targets = <<115000, 130000, 150000>>

\* C10 as stated: under bear_stable an asset whose 24h change is an
\* extreme gain (+15%) gets 0.7 times the score the same analysis gets
\* with a non-extreme 24h change.
C10_BearSpikePenalty ==
    (Scored /\ marketRegime = "bear_stable" /\ coin.analysis.priceChange24h = 15)
        => LET calm == [coin EXCEPT !.analysis.priceChange24h = 2]
           IN  10 * scored.adaptedScore
                 = 7 * adaptStrategyToMarket(calm, "bear_stable").adaptedScore

---------------------------------------------------------------------------
(* Properties of the reported risk tier, checked under SpecDetails *)

\* the tier the design assigns to each regime
RegimeRiskTier(regime) ==
    CASE regime = "bull_stable"       -> "low"
      [] regime = "bull_volatile"     -> "medium"
      [] regime = "bear_stable"       -> "high"
      [] regime = "bear_volatile"     -> "very_high"
      [] regime = "sideways_stable"   -> "medium"
      [] regime = "volatile_sideways" -> "high"
      [] regime = "neutral"           -> "medium"

\* C11 as stated: the risk tier reported for a ScoredAsset is the tier of
\* its regime (bull_stable low, bull_volatile medium, bear_stable high,
\* bear_volatile very_high, sideways_stable medium, volatile_sideways high,
\* neutral medium) wherever it is reported, on the asset and in its details
\* modal, and is never computed from the score.
C11_RiskTierByRegime ==
    (marketRegime \in Regimes) =>
        /\ Scored \/ modal.open => scored.riskLevel = RegimeRiskTier(marketRegime)
        /\ modal.open => modal.riskLevel = RegimeRiskTier(marketRegime)

---------------------------------------------------------------------------
(* Properties of adaptStrategyToMarket as a whole, checked under           *)
(* SpecStrategy                                                            *)

SixBranches == Regimes \ {"neutral"}
RiskTiers == {"low", "medium", "high", "very_high"}

\* a ScoredAsset with every field of the design: the coin's own fields, a
\* score in [0,100], a risk tier, a plan with all its fields, the regime tag
IsCompleteScoredAsset(s, regime) ==
    /\ DOMAIN s = {"symbol", "price", "analysis", "adaptedScore", "riskLevel",
                   "strategy", "marketRegime"}
    /\ s.adaptedScore \in 0..Points(100)
    /\ s.riskLevel \in RiskTiers
    /\ DOMAIN s.strategy = {"type", "confidence", "entryPrice", "stopLoss",
                            "targets", "positionSize", "timeframe"}
    /\ Len(s.strategy.targets) >= 1
    /\ s.marketRegime = regime

\* C12: for 'neutral' and for every label outside the six regime-specific
\* branches adaptStrategyToMarket returns a complete ScoredAsset built from
\* the baseline scorer and the default strategy, with riskLevel 'medium'
\* and the regime tag it was given; each of the six regime-specific
\* branches returns a complete ScoredAsset as well.
C12_FallbackComplete ==
    Scored =>
        /\ IsCompleteScoredAsset(scored, marketRegime)
        /\ marketRegime \notin SixBranches =>
              /\ scored.adaptedScore = calculateScore(coin.analysis)
              /\ scored.strategy = getDefaultStrategy(coin)
              /\ scored.riskLevel = "medium"

\* a label that is none of the seven
C12_Witness ==
    /\ Scored
    /\ marketRegime = "unknown"
    /\ scored.marketRegime = "unknown"
    /\ scored.strategy.type = "default"
    /\ scored.riskLevel = "medium"

---------------------------------------------------------------------------
(* Properties of the plan confidence, checked under SpecConfidence *)

\* the market type a plan was built for
PlanMarketType ==
    CASE scored.strategy.type = "bull_market"   -> "bull"
      [] scored.strategy.type = "volatile_bull" -> "volatile_bull"
      [] scored.strategy.type = "bear_market"   -> "bear"
      [] scored.strategy.type = "range_trading" -> "sideways"

MarketBullishAbove70 ==
    /\ marketMetrics # EmptyMetrics
    /\ Above(marketMetrics.trend.bullishRatio, 70)

MarketVolatilityHigh ==
    /\ marketMetrics # EmptyMetrics
    /\ marketMetrics.volatility.regime = "high"

\* the sum of the confidence rule, in points
ConfidenceSum ==
    LET a == coin.analysis
        Add(cond, n) == IF cond THEN n ELSE 0
    IN    50
        + Add(a.rsi.signal = "bullish", 10)
        + Add(a.macd.signal = "bullish", 10)
        + Add(a.liquidityFlow.trend = "increasing", 15)
        + Add(a.buyingPower.strength = "high", 15)
        + Add(PlanMarketType = "bull" /\ MarketBullishAbove70, 10)
        + Add(PlanMarketType = "bear" /\ a.rsi.signal = "oversold", 15)
        + Add(PlanMarketType = "sideways"
                /\ (a.supportResistance.nearSupport
                      \/ a.supportResistance.nearResistance), 10)
        - Add(MarketVolatilityHigh, 10)
        - Add(a.rsi.signal = "overbought", 15)

\* C13: the confidence of a plan is 50, plus 10 for a bullish RSI signal,
\* 10 for bullish MACD, 15 for increasing liquidity flow, 15 for high
\* buying power, plus the market-type bonus (bull: 10 if the market's
\* bullishRatio exceeds 0.7; bear: 15 if RSI is oversold; sideways: 10 if
\* near support or resistance), minus 10 for a high market volatility
\* regime and 15 for overbought RSI, clamped to [0,100].
C13_ConfidenceRule ==
    Scored =>
        scored.strategy.confidence
            = Points(IF ConfidenceSum > 100 THEN 100
                     ELSE IF ConfidenceSum < 0 THEN 0 ELSE ConfidenceSum)

\* the bear bonus lifts the sum to 105 and the result is cut to 100
C13_Witness ==
    /\ Scored
    /\ PlanMarketType = "bear"
    /\ coin.analysis.rsi.signal = "oversold"
    /\ ConfidenceSum = 105
    /\ scored.strategy.confidence = Points(100)

---------------------------------------------------------------------------
(* Properties of the refresh cycle, checked under Spec and SpecFrozen *)

HasScore(c) == "adaptedScore" \in DOMAIN c
HasRank(c) == "rank" \in DOMAIN c

\* the step in which the invocation c scores, sorts, ranks and publishes
PublishedBy(c) == c.pc = "analysing" /\ cycles' = Replace(c, Alerting)

\* the position of a symbol in the fetched universe
FetchIndex(symbol) ==
    CHOOSE i \in 1..Len(AnalysedCoins(market)) : AnalysedCoins(market)[i].symbol = symbol

\* C14 as stated: a full cycle on frozen ticker and candle data publishes
\* the same regime and the same list (order, scores, risk tiers, plans with
\* their confidence) whatever regime, metrics and coin list earlier cycles
\* left behind: both are determined by the frozen data alone.
C14_FrozenDataDeterminesResult ==
    [][ \A c \in InFlight :
          PublishedBy(c) =>
              /\ marketRegime' = determineMarketRegime(Overview(market))
              /\ marketMetrics' = Overview(market)
              /\ coins' = PublishedList(market, determineMarketRegime(Overview(market))) ]_vars

\* what holds instead: the frozen data determine the result of every cycle
\* whose own regime detection succeeded
DetectedCycleDeterminedByData ==
    [][ \A c \in InFlight :
          (PublishedBy(c) /\ c.detected # "failed") =>
              /\ marketRegime' = determineMarketRegime(Overview(market))
              /\ marketMetrics' = Overview(market)
              /\ coins' = PublishedList(market, determineMarketRegime(Overview(market))) ]_vars

\* C15: a list that carries ranks is completely scored, ordered by
\* non-increasing adaptedScore, keeps coins of equal score in fetch order,
\* and its ranks are the positions in that order.
C15_SortedStableRanked ==
    (\E i \in DOMAIN coins : HasRank(coins[i])) =>
        /\ \A i \in DOMAIN coins : HasScore(coins[i]) /\ HasRank(coins[i])
        /\ \A i \in DOMAIN coins : coins[i].rank = i
        /\ \A i, j \in DOMAIN coins :
              i < j =>
                 /\ coins[i].adaptedScore >= coins[j].adaptedScore
                 /\ coins[i].adaptedScore = coins[j].adaptedScore
                       => FetchIndex(coins[i].symbol) < FetchIndex(coins[j].symbol)

\* two coins tie at the top in fetch order, the first fetched coin is last
C15_Witness ==
    /\ Len(coins) = 3
    /\ HasRank(coins[1])
    /\ coins[1].symbol = "ETH" /\ coins[2].symbol = "SOL" /\ coins[3].symbol = "BTC"
    /\ coins[1].adaptedScore = coins[2].adaptedScore
    /\ coins[2].adaptedScore > coins[3].adaptedScore
    /\ coins[3].rank = 3

\* C16 as stated: in every state another callback can observe, this.coins
\* is a complete list (every coin scored and ranked), also after loadData
\* ended by an exception in the scoring.
C16_NoPartialList ==
    \A i \in DOMAIN coins : HasScore(coins[i]) /\ HasRank(coins[i])

\* C17: a loadData invocation whose ticker or candle fetch fails has not
\* changed this.coins or this.filteredCoins in any of its steps, the
\* failing one included, and the failing step reports the error.
C17_FailedFetchLeavesLists ==
    [][ \A c \in InFlight :
          /\ (c.pc \in {"tickers", "candles"} /\ cycles' = Remove(c)) =>
                /\ coins' = coins
                /\ filteredCoins' = filteredCoins
                /\ errorShown'
          /\ (c.pc \in {"detecting", "tickers", "candles"}
                /\ \E stage \in {"tickers", "candles", "analysing"},
                      r \in Regimes \cup {"failed"} :
                      cycles' = Replace(c, [pc |-> stage, detected |-> r])) =>
                /\ coins' = coins
                /\ filteredCoins' = filteredCoins ]_vars

\* the error of a failed cycle on screen beside the list of an earlier cycle
C17_Witness ==
    /\ errorShown
    /\ cycles = EmptyBag
    /\ Len(coins) = 3
    /\ HasRank(coins[1])
    /\ filteredCoins = coins

\* C18 as stated: at most one loadData invocation is between its start and
\* its completion at any time.
C18_NoOverlap == BagCardinality(cycles) <= 1

\* C19 as stated: every coin a loadData invocation publishes is tagged with
\* the regime this invocation's own detectMarketRegime determined.
C19_OwnRegimeHeld ==
    [][ \A c \in InFlight :
          PublishedBy(c) =>
              \A i \in DOMAIN coins' : coins'[i].marketRegime = c.detected ]_vars

---------------------------------------------------------------------------
(* Properties of hasMarketRegimeChanged, checked under SpecRegimeAlert *)

\* C20: a call returns true exactly when a regime is persisted and differs
\* from the current one, and leaves the current regime persisted; so a call
\* with nothing persisted, and a call that follows another with the regime
\* unchanged, return false.
C20_ChangeSignalledOnce ==
    [][ pc' = "checked" =>
          /\ (regimeChanged' = "true")
                <=> (previousMarketRegime # "null"
                        /\ previousMarketRegime # marketRegime)
          /\ regimeChanged' \in {"true", "false"}
          /\ previousMarketRegime' = marketRegime
          /\ previousMarketRegime = "null" => regimeChanged' = "false"
          /\ pc = "checked" => regimeChanged' = "false" ]_vars

\* a change to bear_stable has been signalled and is now persisted
C20_Witness ==
    /\ pc = "checked"
    /\ regimeChanged = "true"
    /\ marketRegime = "bear_stable"
    /\ previousMarketRegime = "bear_stable"

---------------------------------------------------------------------------
(* Position size, checked under SpecStrategy *)

\* the stable variant of a regime label
StableVariant(regime) ==
    CASE regime = "bull_volatile" -> "bull_stable"
      [] regime = "bear_volatile" -> "bear_stable"
      [] regime = "volatile_sideways" -> "sideways_stable"
      [] OTHER -> regime

\* C21: the position size of the plan is the table entry of the regime
\* (bull_stable BULL_MARKET, bear_stable BEAR_MARKET, sideways_stable
\* SIDEWAYS_MARKET, bull_volatile 0.7 x BULL_MARKET, in 1/100000), and the
\* plan of a volatile regime never has a larger position size than the plan
\* the same coin gets under the stable variant.
C21_PositionSizeByRegime ==
    Scored =>
        /\ marketRegime = "bull_stable"
              => scored.strategy.positionSize = 10 * BULL_MAX_POSITION_SIZE
        /\ marketRegime = "bear_stable"
              => scored.strategy.positionSize = 10 * BEAR_MAX_POSITION_SIZE
        /\ marketRegime = "sideways_stable"
              => scored.strategy.positionSize = 10 * SIDEWAYS_MAX_POSITION_SIZE
        /\ marketRegime = "bull_volatile"
              => scored.strategy.positionSize = 7 * BULL_MAX_POSITION_SIZE
        /\ scored.strategy.positionSize
              <= adaptStrategyToMarket(coin, StableVariant(marketRegime)).strategy.positionSize

\* a volatile-bull plan with 3.5% of the portfolio, below the 5% of the
\* bull plan of the same coin
C21_Witness ==
    /\ Scored
    /\ marketRegime = "bull_volatile"
    /\ scored.strategy.positionSize = 3500
    /\ getBullMarketStrategy(coin).positionSize = 5000

---------------------------------------------------------------------------
(* Properties of detectMarketRegime in the running detector, checked under *)
(* Spec                                                                    *)

\* C22: a loadData step whose regime detection fails leaves
\* this.marketRegime and this.marketMetrics as they were, every step leaves
\* the pair unchanged or replaces both, and whenever a snapshot is stored
\* this.marketRegime is its classification.
C22_FailedDetectionRetainsPair ==
    [][ /\ \A c \in InFlight :
              (c.pc = "detecting"
                 /\ cycles' = Replace(c, [pc |-> "tickers", detected |-> "failed"]))
                  => /\ marketRegime' = marketRegime
                     /\ marketMetrics' = marketMetrics
        /\ marketMetrics' # EmptyMetrics
              => marketRegime' = determineMarketRegime(marketMetrics')
        /\ marketMetrics' = EmptyMetrics => marketRegime' = "neutral" ]_vars

\* a detection has failed on a falling market and the bull_stable pair of
\* the last successful detection is still in place
C22_Witness ==
    /\ market = "slump"
    /\ \E c \in InFlight : c.pc = "tickers" /\ c.detected = "failed"
    /\ marketRegime = "bull_stable"
    /\ marketMetrics = Overview("rally")

---------------------------------------------------------------------------
(* The fast price-only refresh (updatePricesOnly, lines 811-830) beside    *)
(* cycles that publish lists.  A ticker is [instId, last, sodUtc8]; last   *)
(* is the string the exchange sends, sodUtc8 is held as the number its     *)
(* string denotes.                                                         *)

\* parseFloat on the price strings the tickers below carry
parseFloat(str) ==
    CASE str = "90" -> 90
      [] str = "110" -> 110
      [] str = "2400" -> 2400
      [] str = "2600.0" -> 2600
      [] str = "201" -> 201
      [] str = "202" -> 202

Ticker(instId, last, sodUtc8) == [instId |-> instId, last |-> last, sodUtc8 |-> sodUtc8]

\* answers of fetchOKXTickers: every coin, some coins, one coin twice, no
\* published coin, nothing
PriceTickers ==
    { << Ticker("BTC-USDT", "2600.0", 2500), Ticker("ETH-USDT", "110", 100),
         Ticker("SOL-USDT", "90", 100) >>,
      << Ticker("ETH-USDT", "90", 110), Ticker("DOGE-USDT", "110", 90) >>,
      << Ticker("SOL-USDT", "110", 90), Ticker("SOL-USDT", "90", 110) >>,
      << Ticker("BTC-USDT", "2400", 2600) >>,
      << Ticker("DOGE-USDT", "90", 110) >>,
      << >> }

\* tickers.find(t => t.instId === instId): the index of the first match, 0
\* for undefined
RECURSIVE FindTicker(_, _, _)
FindTicker(tk, instId, i) ==
    IF i > Len(tk) THEN 0
    ELSE IF tk[i].instId = instId THEN i
    ELSE FindTicker(tk, instId, i + 1)

\* the refresh dropping the coins that have no ticker
updatePricesOnly_dropsUnmatched(cs, tk) ==
    SelectSeq([i \in 1..Len(cs) |->
                 LET t == FindTicker(tk, cs[i].symbol \o "-USDT", 1)
                 IN  IF t = 0 THEN cs[i]
                     ELSE [cs[i] EXCEPT !.price = parseFloat(tk[t].last),
                                        !.analysis.priceChange24h = tk[t].sodUtc8]],
              LAMBDA c : FindTicker(tk, c.symbol \o "-USDT", 1) # 0)

\* the forEach of lines 816-822 over the coin list cs
updatePricesOnly(cs, tk) ==
    [i \in 1..Len(cs) |->
        LET t == FindTicker(tk, cs[i].symbol \o "-USDT", 1)
        IN  IF t = 0 THEN cs[i]
            ELSE [cs[i] EXCEPT !.price = parseFloat(tk[t].last),
                               !.analysis.priceChange24h = tk[t].sodUtc8]]

\* regimes of the lists the cycles publish here
PriceRegimes == {"bull_stable", "bear_stable", "sideways_stable", "neutral"}

InitPrices ==
    /\ pc = "idle"
    /\ market \in MarketIds
    /\ marketRegime \in PriceRegimes
    /\ marketMetrics = EmptyMetrics
    /\ coins \in {<<>>, PublishedList(market, marketRegime)}
    /\ filteredCoins = coins
    /\ cycles = EmptyBag
    /\ slowPending = FALSE
    /\ errorShown = FALSE
    /\ previousMarketRegime = "null"
    /\ regimeChanged = "none"
    /\ tickers = <<>>
    /\ analysis = NoAnalysis
    /\ coin = NoCoin
    /\ scored = NoScored
    /\ modal = NoModal
    /\ PageAtRest

priceFrame == <<tickers, analysis, coin, scored, modal, marketMetrics, cycles, slowPending,
                errorShown, previousMarketRegime, regimeChanged>>

\* the FAST_UPDATE interval calls updatePricesOnly, which is suspended at
\* fetchOKXTickers
FastUpdateTimer ==
    /\ pc # "fetching"
    /\ pc' = "fetching"
    /\ UNCHANGED <<market, marketRegime, coins, filteredCoins, priceFrame>>
    /\ UNCHANGED pageVars

\* the fetch resolves: the coins of the list now published are updated in
\* place; filteredCoins holds the same coin objects
UpdatePricesOnly_Fetched ==
    /\ pc = "fetching"
    /\ \E tk \in PriceTickers :
          /\ coins' = updatePricesOnly(coins, tk)
          /\ filteredCoins' = updatePricesOnly(filteredCoins, tk)
    /\ pc' = "updated"
    /\ UNCHANGED <<market, marketRegime, priceFrame>>
    /\ UNCHANGED pageVars

\* the fetch rejects: the catch logs the error
UpdatePricesOnly_FetchFailed ==
    /\ pc = "fetching"
    /\ pc' = "failed"
    /\ UNCHANGED <<market, marketRegime, coins, filteredCoins, priceFrame>>
    /\ UNCHANGED pageVars

\* a loadData cycle publishes the list of other data or of another regime,
\* also while the refresh is suspended
CyclePublished ==
    /\ market' \in MarketIds
    /\ marketRegime' \in PriceRegimes
    /\ coins' = PublishedList(market', marketRegime')
    /\ filteredCoins' = coins'
    /\ UNCHANGED <<pc, priceFrame>>
    /\ UNCHANGED pageVars

NextPrices ==
    \/ FastUpdateTimer
    \/ UpdatePricesOnly_Fetched
    \/ UpdatePricesOnly_FetchFailed
    \/ CyclePublished

SpecPrices == InitPrices /\ [][NextPrices]_vars

\* a coin with price and analysis.priceChange24h blanked
WithoutPrice(c) == [c EXCEPT !.price = 0, !.analysis.priceChange24h = 0]

\* C23: the step in which updatePricesOnly returns leaves the length and
\* the order of this.coins, and every field of every coin other than price
\* and analysis.priceChange24h (adaptedScore, riskLevel, strategy, rank,
\* marketRegime among them) as they were; a coin without a ticker is not
\* changed at all, and when the fetch failed no coin is changed.
C23_PriceRefreshFrame ==
    [][ (pc = "fetching" /\ pc' # "fetching") =>
          /\ Len(coins') = Len(coins)
          /\ \A i \in DOMAIN coins :
                /\ WithoutPrice(coins'[i]) = WithoutPrice(coins[i])
                /\ (\A tk \in PriceTickers :
                       FindTicker(tk, coins[i].symbol \o "-USDT", 1) = 0
                          => updatePricesOnly(coins, tk)[i] = coins[i])
          /\ pc' = "failed" => coins' = coins /\ filteredCoins' = filteredCoins ]_vars

\* after a refresh ETH has the new price 90 beside the plan made at the
\* price 100, and SOL, which had no ticker, is as it was
C23_Witness ==
    /\ pc = "updated"
    /\ Len(coins) = 3
    /\ \E i, j \in DOMAIN coins :
          /\ coins[i].symbol = "ETH" /\ coins[i].price = 90
          /\ coins[i].strategy = adaptStrategyToMarket(AnalysedCoins(market)[2], marketRegime).strategy
          /\ coins[i].rank = i
          /\ coins[j] = PublishedList(market, marketRegime)[j]
          /\ coins[j].symbol = "SOL"

---------------------------------------------------------------------------
(* The alert pass checkAndSendAlerts (lines 573-612) that loadData starts  *)
(* after it has published a list, and the alerts panel (addUIAlert, lines  *)
(* 925-956).  An alert is [type, symbol].                                  *)

(* CONFIG.ALERTS.ALERT_THRESHOLDS (enhanced-config.js:109-113) *)
HIGH_SCORE == 85
\* VOLUME_SPIKE: 5.0, compared as VOLUME_SPIKE * 100 with the percentage
ALERT_VOLUME_SPIKE == 5
\* PRICE_BREAKOUT: 0.1, compared as PRICE_BREAKOUT * 100 = 10 with the
\* 24h change in percent
PRICE_BREAKOUT == 10

\* the most alerts the panel keeps (line 951)
MaxShown == 10

Alert(type, symbol) == [type |-> type, symbol |-> symbol]

\* the panel keeping the oldest alerts and dropping the new one
addUIAlert_dropsNewest(container, alert) ==
    IF Len(container) >= MaxShown THEN container ELSE <<alert>> \o container

\* insertBefore(alertElement, firstChild), then the last .ui-alert is
\* removed when there are more than ten
addUIAlert(container, alert) ==
    LET alerts == <<alert>> \o container
    IN  IF Len(alerts) > MaxShown THEN SubSeq(alerts, 1, Len(alerts) - 1) ELSE alerts

hasBreakoutSignal(c) == Abs(c.analysis.priceChange24h) >= PRICE_BREAKOUT

isHighScore(c) == HasScore(c) /\ c.adaptedScore >= Points(HIGH_SCORE)

isVolumeSpike(c) == c.analysis.liquidityFlow.percentage >= ALERT_VOLUME_SPIKE * 100

\* one alert of the type for every coin of the list, in list order
AlertsFor(type, cs) == [i \in 1..Len(cs) |-> Alert(type, cs[i].symbol)]

\* the pass sending the volume_spike alerts before the high_score alerts
AlertQueue_spikesFirst(cs) ==
       AlertsFor("volume_spike", SelectSeq(cs, isVolumeSpike))
    \o AlertsFor("high_score", SelectSeq(cs, isHighScore))
    \o AlertsFor("breakout", SelectSeq(cs, hasBreakoutSignal))

\* the three filters of lines 576-587 and the three loops of 590-600: the
\* sendAlert calls the pass will make, in order
AlertQueue(cs) ==
       AlertsFor("high_score", SelectSeq(cs, isHighScore))
    \o AlertsFor("volume_spike", SelectSeq(cs, isVolumeSpike))
    \o AlertsFor("breakout", SelectSeq(cs, hasBreakoutSignal))

\* analysed coins around the three thresholds: a bull-market score of
\* exactly 85 with a liquidity percentage of exactly 500 and a 24h change
\* of exactly -10; a score of 65 with 499 and +9, below every threshold; a
\* score of 100 with a change of +15; a percentage of 600 with a low score
AlertCoin(symbol) ==
    CASE symbol = "BTC" ->
           Named("BTC", MakeCoin([BullishIndicators EXCEPT
                                     !.liquidityFlow = [trend |-> "decreasing", percentage |-> 500],
                                     !.movingAverages = [signal |-> "sell"]],
                                 2500, 90, 110, -10, "low"))
      [] symbol = "ETH" ->
           Named("ETH", MakeCoin([BearishIndicators EXCEPT
                                     !.macd = [signal |-> "bullish"],
                                     !.buyingPower = [strength |-> "high"],
                                     !.liquidityFlow = [trend |-> "decreasing", percentage |-> 499]],
                                 100, 100, 105, 9, "low"))
      [] symbol = "SOL" ->
           Named("SOL", MakeCoin(BullishIndicators, 100, 90, 110, 15, "high"))
      [] symbol = "DOGE" ->
           Named("DOGE", MakeCoin([BearishIndicators EXCEPT
                                      !.liquidityFlow = [trend |-> "decreasing", percentage |-> 600]],
                                  100, 90, 110, -3, "low"))

\* the universes analysed, in fetch order
AlertUniverses ==
    { <<>>,
      <<AlertCoin("BTC"), AlertCoin("ETH"), AlertCoin("SOL")>>,
      <<AlertCoin("ETH"), AlertCoin("DOGE")>>,
      <<AlertCoin("DOGE"), AlertCoin("SOL"), AlertCoin("BTC")>>,
      <<AlertCoin("BTC"), AlertCoin("ETH"), AlertCoin("SOL"), AlertCoin("DOGE")>> }

AlertRegimes == {"bull_stable", "bear_stable"}

\* the lists loadData publishes from them
AlertLists ==
    { assignRanks(SortByScore([i \in 1..Len(u) |-> adaptStrategyToMarket(u[i], r)])) :
        u \in AlertUniverses, r \in AlertRegimes }

\* a cycle has published its list and is about to call checkAndSendAlerts
InitAlerts ==
    /\ pc = "published"
    /\ enableNotifications \in BOOLEAN
    /\ marketRegime \in AlertRegimes
    /\ marketMetrics = EmptyMetrics
    /\ coins \in AlertLists
    /\ filteredCoins = coins
    /\ previousMarketRegime \in {"null"} \cup AlertRegimes
    /\ alertPass = NoPass
    /\ sent = <<>>
    /\ alertsContainer = <<>>
    /\ market = "none"
    /\ cycles = EmptyBag
    /\ slowPending = FALSE
    /\ errorShown = FALSE
    /\ regimeChanged = "none"
    /\ tickers = <<>>
    /\ analysis = NoAnalysis
    /\ coin = NoCoin
    /\ scored = NoScored
    /\ modal = NoModal
    /\ monitorAlerts = <<>>
    /\ priceAlerts = <<>>
    /\ checkPass = NoPass
    /\ watchlist = <<>>

alertFrame == <<tickers, analysis, coin, scored, modal, marketMetrics, market, cycles,
                slowPending, errorShown, regimeChanged, enableNotifications,
                monitorAlerts, priceAlerts, checkPass, watchlist>>

\* checkAndSendAlerts up to its first await: it returns at once when
\* notifications are disabled, else it filters the three lists
CheckAndSendAlerts ==
    /\ pc = "published"
    /\ alertPass = NoPass
    /\ IF enableNotifications
       THEN /\ alertPass' = [pc |-> "sending", queue |-> AlertQueue(coins)]
            /\ pc' = "alerting"
       ELSE /\ alertPass' = [pc |-> "returned", queue |-> <<>>]
            /\ pc' = "done"
    /\ sent' = <<>>
    /\ UNCHANGED <<marketRegime, coins, filteredCoins, previousMarketRegime,
                   alertsContainer, alertFrame>>

\* one sendAlert of the loops: the message goes out and addUIAlert shows it
SendAlert ==
    /\ alertPass.pc = "sending"
    /\ alertPass.queue # <<>>
    /\ sent' = Append(sent, Head(alertPass.queue))
    /\ alertsContainer' = addUIAlert(alertsContainer, Head(alertPass.queue))
    /\ alertPass' = [alertPass EXCEPT !.queue = Tail(alertPass.queue)]
    /\ UNCHANGED <<pc, marketRegime, coins, filteredCoins, previousMarketRegime, alertFrame>>

\* the loops are through: hasMarketRegimeChanged, and sendMarketRegimeAlert
\* when it returned true
SendMarketRegimeAlert ==
    /\ alertPass.pc = "sending"
    /\ alertPass.queue = <<>>
    /\ LET r == hasMarketRegimeChanged(previousMarketRegime, marketRegime)
       IN  /\ previousMarketRegime' = r.persisted
           /\ IF r.changed = "true"
              THEN /\ sent' = Append(sent, Alert("market_change", "MARKET"))
                   /\ alertsContainer' =
                         addUIAlert(alertsContainer, Alert("market_change", "MARKET"))
              ELSE UNCHANGED <<sent, alertsContainer>>
    /\ alertPass' = [pc |-> "returned", queue |-> <<>>]
    /\ pc' = "done"
    /\ UNCHANGED <<marketRegime, coins, filteredCoins, alertFrame>>

\* while the pass is suspended at a send, a slow-timer detection sets the
\* regime or another cycle replaces this.coins
RegimeOrListReplaced ==
    /\ alertPass.pc = "sending"
    /\ \/ /\ marketRegime' \in AlertRegimes \ {marketRegime}
          /\ UNCHANGED <<coins, filteredCoins>>
       \/ /\ coins' \in AlertLists \ {coins}
          /\ filteredCoins' = coins'
          /\ UNCHANGED marketRegime
    /\ UNCHANGED <<pc, alertPass, sent, alertsContainer, previousMarketRegime, alertFrame>>

NextAlerts ==
    \/ CheckAndSendAlerts
    \/ SendAlert
    \/ SendMarketRegimeAlert
    \/ RegimeOrListReplaced

SpecAlerts == InitAlerts /\ [][NextAlerts]_vars

\* the coins of the list with the three signals, as sets of symbols
SymbolsWith(cs, Signal(_)) == {cs[i].symbol : i \in {j \in DOMAIN cs : Signal(cs[j])}}

\* the symbols of the alerts of a type within a sequence of alerts
SymbolsAlerted(as, type) == {as[i].symbol : i \in {j \in DOMAIN as : as[j].type = type}}

AlertOrder(type) ==
    CASE type = "high_score" -> 1
      [] type = "volume_spike" -> 2
      [] type = "breakout" -> 3
      [] type = "market_change" -> 4

\* C24: with notifications enabled the pass queues, from the list published
\* when it starts, a high_score alert for exactly the coins with adaptedScore
\* >= 85, a volume_spike alert for exactly those with liquidity percentage
\* >= 500 and a breakout alert for exactly those with |24h change| >= 10,
\* each coin once per type; what it has sent when it returns is that queue
\* in the order high_score, volume_spike, breakout, then at most one
\* market_change alert; with notifications disabled it sends nothing, shows
\* nothing and leaves the persisted regime.
C24_AlertPassOrder ==
    [][ /\ (alertPass = NoPass /\ alertPass'.pc = "sending") =>
              LET q == alertPass'.queue
              IN  /\ enableNotifications
                  /\ SymbolsAlerted(q, "high_score") = SymbolsWith(coins, isHighScore)
                  /\ SymbolsAlerted(q, "volume_spike") = SymbolsWith(coins, isVolumeSpike)
                  /\ SymbolsAlerted(q, "breakout") = SymbolsWith(coins, hasBreakoutSignal)
                  /\ \A i, j \in DOMAIN q :
                        i < j => /\ AlertOrder(q[i].type) <= AlertOrder(q[j].type)
                                 /\ q[i] # q[j]
                  /\ \A i \in DOMAIN q : AlertOrder(q[i].type) <= 3
        /\ alertPass.pc = "sending" =>
              /\ sent' \o alertPass'.queue \in
                    { sent \o alertPass.queue,
                      sent \o alertPass.queue \o <<Alert("market_change", "MARKET")>> }
              /\ Len(sent') >= Len(sent)
              /\ (sent' # sent /\ alertPass.queue # <<>>)
                    => (sent' = Append(sent, Head(alertPass.queue)) /\ alertPass'.pc = "sending")
              /\ (alertPass.queue # <<>>) => alertPass'.pc = "sending"
        /\ (alertPass = NoPass /\ alertPass'.pc = "returned") =>
              /\ ~enableNotifications
              /\ sent' = <<>>
              /\ alertsContainer' = alertsContainer
              /\ previousMarketRegime' = previousMarketRegime ]_vars

\* a pass has returned after a high_score, two volume_spike and a breakout
\* alert and the alert of a regime change, in this order, while the list
\* now published is another one
C24_Witness ==
    /\ alertPass.pc = "returned"
    /\ Len(sent) >= 5
    /\ sent[1].type = "high_score"
    /\ \E i \in DOMAIN sent : sent[i].type = "volume_spike" /\ sent[i].symbol = "DOGE"
    /\ \E i \in DOMAIN sent : sent[i].type = "breakout"
    /\ sent[Len(sent)] = Alert("market_change", "MARKET")
    /\ AlertQueue(coins) \o <<Alert("market_change", "MARKET")>> # sent

---------------------------------------------------------------------------
(* The alerts panel on its own: any caller adds alerts (sendAlert,         *)
(* sendMarketRegimeAlert, triggerAlert), the user closes some.             *)

PanelAlerts == {Alert("high_score", "BTC"), Alert("price_target", "ETH")}

InitPanel ==
    /\ pc = "loaded"
    /\ marketRegime = "neutral"
    /\ marketMetrics = EmptyMetrics
    /\ tickers = <<>>
    /\ analysis = NoAnalysis
    /\ coin = NoCoin
    /\ scored = NoScored
    /\ modal = NoModal
    /\ DetectorAtRest
    /\ PageAtRest

panelFrame == <<tickers, analysis, marketRegime, coin, scored, marketMetrics, modal,
                detectorVars, enableNotifications, alertPass, monitorAlerts, priceAlerts,
                checkPass, watchlist>>

\* a caller sends one alert and addUIAlert shows it
AddUIAlert ==
    /\ \E alert \in PanelAlerts :
          /\ sent' = <<alert>>
          /\ alertsContainer' = addUIAlert(alertsContainer, alert)
    /\ pc' = "added"
    /\ UNCHANGED panelFrame

\* the close button of an alert: this.parentElement.parentElement.remove()
CloseAlert ==
    /\ \E i \in DOMAIN alertsContainer :
          alertsContainer' = SubSeq(alertsContainer, 1, i - 1)
                                \o SubSeq(alertsContainer, i + 1, Len(alertsContainer))
    /\ pc' = "closed"
    /\ UNCHANGED <<sent, panelFrame>>

NextPanel == AddUIAlert \/ CloseAlert

SpecPanel == InitPanel /\ [][NextPanel]_vars

\* C25: after every addUIAlert the panel holds at most ten alerts, the
\* alert just added is the first, the alerts shown before follow it in
\* their order, and the one left out when there were ten already is the
\* last of them, the oldest.
C25_PanelBounded ==
    [][ pc' = "added" =>
          /\ Len(alertsContainer') <= MaxShown
          /\ alertsContainer'[1] = sent'[1]
          /\ Tail(alertsContainer') =
                IF Len(alertsContainer) = MaxShown
                THEN SubSeq(alertsContainer, 1, MaxShown - 1)
                ELSE alertsContainer ]_vars

\* ten alerts are shown, the newest a price alert, the oldest a score alert
C25_Witness ==
    /\ pc = "added"
    /\ Len(alertsContainer) = MaxShown
    /\ alertsContainer[1] = Alert("price_target", "ETH")
    /\ alertsContainer[2] = Alert("high_score", "BTC")
    /\ alertsContainer[MaxShown] = Alert("high_score", "BTC")
    /\ alertsContainer[MaxShown - 1] = Alert("price_target", "ETH")

---------------------------------------------------------------------------
(* Price alerts: PriceAlertMonitor (lines 1468-1553) and the alert         *)
(* management functions of the page.  An alert is [created, symbol,        *)
(* targetPrice, type, active] with targetPrice in thousandths; created is  *)
(* Date.now(), modelled as a number not used by any alert still referred   *)
(* to.  JSON.parse(localStorage...) yields new objects: a list assigned to *)
(* window.priceMonitor.alerts shares no object with the list a checkAlerts *)
(* call in progress has filtered.                                          *)

\* most alerts in existence at once
MaxAlerts == 2

\* target price typed into the alert forms, in thousandths
FormPrice == 200000

\* answers of fetchOKXTickers: BTC exactly 0.5% above the form price, or
\* 1% above it
AlertTickers ==
    { << Ticker("BTC-USDT", "201", 200), Ticker("ETH-USDT", "110", 100) >>,
      << Ticker("BTC-USDT", "202", 200) >> }

\* Math.abs(currentPrice - targetPrice) / targetPrice <= 0.005
WithinMargin(currentPrice, targetPrice) ==
    Abs(currentPrice * 1000 - targetPrice) * 200 <= targetPrice

PriceAlert(created, symbol, targetPrice, type) ==
    [created |-> created, symbol |-> symbol, targetPrice |-> targetPrice,
     type |-> type, active |-> TRUE]

\* the created stamps in use: stored, held by the monitor, or held by the
\* checkAlerts call in progress
StampsOf(as) == {as[i].created : i \in DOMAIN as}
StampsInUse ==
    StampsOf(priceAlerts) \cup StampsOf(monitorAlerts)
       \cup (IF checkPass = NoPass THEN {}
             ELSE {checkPass.queue[i].alert.created : i \in DOMAIN checkPass.queue})

\* Date.now() of a new alert
Now == CHOOSE n \in 1..(MaxAlerts + 1) : n \notin StampsInUse

CanCreate == Cardinality(StampsInUse) < MaxAlerts

\* window.priceMonitor.alerts = alerts: a checkAlerts call in progress
\* keeps the objects of the list it filtered
MonitorListReplaced ==
    IF checkPass = NoPass THEN checkPass ELSE [checkPass EXCEPT !.replaced = TRUE]

\* the page with the detector's list published, empty storage and the
\* monitor constructed from it (line 1563)
InitPriceAlerts ==
    /\ pc = "loaded"
    /\ market = "rally"
    /\ marketRegime = "bull_stable"
    /\ marketMetrics = Overview("rally")
    /\ coins = PublishedList("rally", "bull_stable")
    /\ filteredCoins = coins
    /\ cycles = EmptyBag
    /\ slowPending = FALSE
    /\ errorShown = FALSE
    /\ previousMarketRegime = "bull_stable"
    /\ regimeChanged = "none"
    /\ tickers = <<>>
    /\ analysis = NoAnalysis
    /\ coin = NoCoin
    /\ scored = NoScored
    /\ modal = NoModal
    /\ PageAtRest

priceAlertFrame == <<tickers, analysis, marketRegime, coin, scored, marketMetrics, modal,
                     detectorVars, enableNotifications, alertPass, sent, watchlist>>

\* setStrategyAlert(symbol): the alert is pushed to the stored list only
SetStrategyAlert ==
    /\ CanCreate
    /\ \E i \in DOMAIN coins :
          /\ "strategy" \in DOMAIN coins[i]
          /\ priceAlerts' = Append(priceAlerts,
                                   PriceAlert(Now, coins[i].symbol,
                                              coins[i].strategy.entryPrice, "entry"))
    /\ pc' = "setStrategyAlert"
    /\ UNCHANGED <<monitorAlerts, checkPass, alertsContainer, priceAlertFrame>>

\* addCustomAlert(): symbol and price from the form
AddCustomAlert ==
    /\ CanCreate
    /\ priceAlerts' = Append(priceAlerts, PriceAlert(Now, "BTC", FormPrice, "target"))
    /\ monitorAlerts' = priceAlerts'
    /\ checkPass' = MonitorListReplaced
    /\ pc' = "addCustomAlert"
    /\ UNCHANGED <<alertsContainer, priceAlertFrame>>

\* createQuickAlert(symbol, currentPrice) with a price entered at the prompt
CreateQuickAlert ==
    /\ CanCreate
    /\ priceAlerts' = Append(priceAlerts, PriceAlert(Now, "BTC", FormPrice, "above"))
    /\ monitorAlerts' = priceAlerts'
    /\ checkPass' = MonitorListReplaced
    /\ pc' = "createQuickAlert"
    /\ UNCHANGED <<alertsContainer, priceAlertFrame>>

\* toggleAlert(created, active) from the button of a stored alert: stop for
\* an active alert, activate for a stopped one (line 1775)
ToggleAlert ==
    /\ \E i \in DOMAIN priceAlerts :
          /\ \A j \in 1..(i - 1) : priceAlerts[j].created # priceAlerts[i].created
          /\ priceAlerts' = [priceAlerts EXCEPT ![i].active = ~priceAlerts[i].active]
    /\ monitorAlerts' = priceAlerts'
    /\ checkPass' = MonitorListReplaced
    /\ pc' = "toggleAlert"
    /\ UNCHANGED <<alertsContainer, priceAlertFrame>>

\* removeAlert(created) from the button of a stored alert
RemoveAlert ==
    /\ \E i \in DOMAIN priceAlerts :
          priceAlerts' = SelectSeq(priceAlerts,
                                   LAMBDA a : a.created # priceAlerts[i].created)
    /\ monitorAlerts' = priceAlerts'
    /\ checkPass' = MonitorListReplaced
    /\ pc' = "removeAlert"
    /\ UNCHANGED <<alertsContainer, priceAlertFrame>>

\* the active alerts of this.alerts with their places in it
ActiveAlerts ==
    SelectSeq([i \in DOMAIN monitorAlerts |-> [idx |-> i, alert |-> monitorAlerts[i]]],
              LAMBDA e : e.alert.active)

\* the 30-second interval calls checkAlerts, which filters the active
\* alerts and is suspended at fetchOKXTickers
PriceMonitorTimer ==
    /\ checkPass = NoPass
    /\ ActiveAlerts # <<>>
    /\ checkPass' = [pc |-> "fetching", queue |-> ActiveAlerts, replaced |-> FALSE]
    /\ UNCHANGED <<pc, monitorAlerts, priceAlerts, alertsContainer, priceAlertFrame>>

\* the alerts of the call whose ticker is within the margin of the target
Reached(queue, tk) ==
    SelectSeq(queue,
              LAMBDA e :
                 LET t == FindTicker(tk, e.alert.symbol \o "-USDT", 1)
                 IN  t # 0 /\ WithinMargin(parseFloat(tk[t].last), e.alert.targetPrice))

\* the fetch resolves: the loop runs up to the first alert reached and is
\* suspended in triggerAlert, or runs through
CheckAlerts_Fetched ==
    /\ checkPass.pc = "fetching"
    /\ \E tk \in AlertTickers :
          checkPass' = IF Reached(checkPass.queue, tk) = <<>> THEN NoPass
                       ELSE [checkPass EXCEPT !.pc = "triggering",
                                              !.queue = Reached(checkPass.queue, tk)]
    /\ UNCHANGED <<pc, monitorAlerts, priceAlerts, alertsContainer, priceAlertFrame>>

\* the fetch rejects: the catch logs the error
CheckAlerts_FetchFailed ==
    /\ checkPass.pc = "fetching"
    /\ checkPass' = NoPass
    /\ UNCHANGED <<pc, monitorAlerts, priceAlerts, alertsContainer, priceAlertFrame>>

\* deactivateAlert(alert): the flag of the filtered object is cleared; this
\* is an object of this.alerts unless the list has been replaced
deactivateAlert(e, replaced) ==
    IF replaced THEN monitorAlerts
    ELSE [monitorAlerts EXCEPT ![e.idx].active = FALSE]

\* triggerAlert returns: the alert is shown, deactivateAlert clears the
\* flag and stores this.alerts, and the loop goes on to the next alert
\* reached
CheckAlerts_Triggered ==
    /\ checkPass.pc = "triggering"
    /\ LET e == Head(checkPass.queue)
       IN  /\ alertsContainer' = addUIAlert(alertsContainer, Alert("price_target", e.alert.symbol))
           /\ monitorAlerts' = deactivateAlert(e, checkPass.replaced)
           /\ priceAlerts' = monitorAlerts'
    /\ checkPass' = IF Tail(checkPass.queue) = <<>> THEN NoPass
                    ELSE [checkPass EXCEPT !.queue = Tail(checkPass.queue)]
    /\ UNCHANGED <<pc, priceAlertFrame>>

NextPriceAlerts ==
    \/ SetStrategyAlert
    \/ AddCustomAlert
    \/ CreateQuickAlert
    \/ ToggleAlert
    \/ RemoveAlert
    \/ PriceMonitorTimer
    \/ CheckAlerts_Fetched
    \/ CheckAlerts_FetchFailed
    \/ CheckAlerts_Triggered

SpecPriceAlerts == InitPriceAlerts /\ [][NextPriceAlerts]_vars

\* no alert with the stamp is active in the list
InactiveIn(as, created) == \A i \in DOMAIN as : as[i].created = created => ~as[i].active

\* C26 as stated: when checkAlerts has triggered an alert, the alert is
\* deactivated in the monitor's list and in the stored priceAlerts, also
\* when the monitor's list was replaced while checkAlerts was suspended.
C26_TriggeredOncePerActivation ==
    [][ (checkPass # NoPass /\ checkPass.pc = "triggering"
           /\ alertsContainer' = addUIAlert(alertsContainer,
                                            Alert("price_target", Head(checkPass.queue).alert.symbol))
           /\ checkPass' # checkPass /\ pc' = pc) =>
              /\ InactiveIn(monitorAlerts', Head(checkPass.queue).alert.created)
              /\ InactiveIn(priceAlerts', Head(checkPass.queue).alert.created) ]_vars

\* C27 as stated: the monitor's list and the stored priceAlerts hold the
\* same alerts with the same active flags after every alert-management
\* operation, setStrategyAlert and deactivateAlert included.
C27_MonitorAgreesWithStorage == monitorAlerts = priceAlerts

---------------------------------------------------------------------------
(* The watchlist: localStorage 'cryptoWatchlist', read everywhere as       *)
(* JSON.parse(localStorage.getItem('cryptoWatchlist') || '[]'), so that a  *)
(* missing key reads as the empty list.                                    *)

WatchSymbols == {"BTC", "ETH", "SOL", "DOGE"}

Includes(w, symbol) == \E i \in DOMAIN w : w[i] = symbol

\* addToWatchlist without the includes test
addToWatchlist_unguarded(w, symbol) == Append(w, symbol)

\* addToWatchlist(symbol): the list stored afterwards
addToWatchlist(w, symbol) == IF ~Includes(w, symbol) THEN Append(w, symbol) ELSE w

\* removeFromWatchlist(symbol): watchlist.filter(s => s !== symbol)
removeFromWatchlist(w, symbol) == SelectSeq(w, LAMBDA x : x # symbol)

\* clearWatchlist(): removeItem when the user confirms
clearWatchlist(w, confirmed) == IF confirmed THEN <<>> ELSE w

InitWatchlist ==
    /\ pc = "loaded"
    /\ marketRegime = "neutral"
    /\ marketMetrics = EmptyMetrics
    /\ tickers = <<>>
    /\ analysis = NoAnalysis
    /\ coin = NoCoin
    /\ scored = NoScored
    /\ modal = NoModal
    /\ DetectorAtRest
    /\ PageAtRest

watchlistFrame == <<tickers, analysis, marketRegime, coin, scored, marketMetrics, modal,
                    detectorVars, enableNotifications, alertPass, sent, alertsContainer,
                    monitorAlerts, priceAlerts, checkPass>>

AddToWatchlist ==
    /\ \E symbol \in WatchSymbols :
          /\ watchlist' = addToWatchlist(watchlist, symbol)
          /\ pc' = IF Includes(watchlist, symbol) THEN "present" ELSE "added"
    /\ UNCHANGED watchlistFrame

RemoveFromWatchlist ==
    /\ \E symbol \in WatchSymbols : watchlist' = removeFromWatchlist(watchlist, symbol)
    /\ pc' = "removed"
    /\ UNCHANGED watchlistFrame

ClearWatchlist ==
    /\ \E confirmed \in BOOLEAN :
          /\ watchlist' = clearWatchlist(watchlist, confirmed)
          /\ pc' = IF confirmed THEN "cleared" ELSE "kept"
    /\ UNCHANGED watchlistFrame

NextWatchlist == AddToWatchlist \/ RemoveFromWatchlist \/ ClearWatchlist

SpecWatchlist == InitWatchlist /\ [][NextWatchlist]_vars

\* the position of a symbol in a list without duplicates
PlaceIn(w, symbol) == CHOOSE i \in DOMAIN w : w[i] = symbol

\* C28: the stored watchlist never holds a symbol twice; adding a symbol a
\* second time changes nothing; after removeFromWatchlist(s) the list holds
\* every other symbol it held, in the order they had, and not s; a
\* confirmed clearWatchlist leaves the empty list.
C28_WatchlistNoDuplicates ==
    /\ \A i, j \in DOMAIN watchlist : watchlist[i] = watchlist[j] => i = j
    /\ \A s \in WatchSymbols :
          /\ Includes(addToWatchlist(watchlist, s), s)
          /\ addToWatchlist(addToWatchlist(watchlist, s), s) = addToWatchlist(watchlist, s)
          /\ LET r == removeFromWatchlist(watchlist, s)
             IN  /\ ~Includes(r, s)
                 /\ \A x \in WatchSymbols \ {s} : Includes(r, x) <=> Includes(watchlist, x)
                 /\ \A i, j \in DOMAIN r :
                       i < j <=> PlaceIn(watchlist, r[i]) < PlaceIn(watchlist, r[j])
    /\ clearWatchlist(watchlist, TRUE) = <<>>
    /\ pc = "cleared" => watchlist = <<>>

\* ETH was added before BTC, and adding one of them again was refused
C28_Witness ==
    /\ pc = "present"
    /\ watchlist = <<"ETH", "BTC">>

---------------------------------------------------------------------------
(* Specification of the snapshot pipeline of detectMarketRegime with the   *)
(* ticker universe kept beside the snapshot built from it: tickers is in   *)
(* scope in analyzeMarketConditions while the trend group is computed and  *)
(* the snapshot is classified right after.                                 *)

InitTrend ==
    /\ pc = "fetched"
    /\ tickers \in Universes
    /\ analysis = NoAnalysis
    /\ marketRegime = "unset"
    /\ coin = NoCoin
    /\ scored = NoScored
    /\ marketMetrics = EmptyMetrics
    /\ modal = NoModal
    /\ DetectorAtRest
    /\ PageAtRest

\* analyzeMarketConditions(marketData)
TrendAnalysed ==
    /\ pc = "fetched"
    /\ \E s \in StrengthValues, v \in VolumeTrends, o \in VolatilityRegimes :
          analysis' = MakeAnalysis(analyzeTrendDirection(tickers), s, v, o)
    /\ pc' = "analysed"
    /\ UNCHANGED <<tickers, marketRegime, coin, scored, marketMetrics, modal, detectorVars>>
    /\ UNCHANGED pageVars

\* this.marketRegime = this.determineMarketRegime(analysis)
TrendClassified ==
    /\ pc = "analysed"
    /\ marketRegime' = determineMarketRegime(analysis)
    /\ pc' = "classified"
    /\ UNCHANGED <<tickers, analysis, coin, scored, marketMetrics, modal, detectorVars>>
    /\ UNCHANGED pageVars

NextTrend == TrendAnalysed \/ TrendClassified

SpecTrend == InitTrend /\ [][NextTrend]_vars

\* the k-th rule of determineMarketRegime and the label it returns
RuleHolds(k, a) ==
    CASE k = 1 -> BullRule(a)
      [] k = 2 -> BearRule(a)
      [] k = 3 -> VolatileSidewaysRule(a)
      [] k = 4 -> SidewaysStableRule(a)

RuleLabel(k, a) ==
    CASE k = 1 -> (IF a.volatility.regime = "high" THEN "bull_volatile" ELSE "bull_stable")
      [] k = 2 -> (IF a.volatility.regime = "high" THEN "bear_volatile" ELSE "bear_stable")
      [] k = 3 -> "volatile_sideways"
      [] k = 4 -> "sideways_stable"

\* every order in which the four rules can be tried
RuleOrders == Permutations(1..4)

\* the rules a snapshot satisfies
RulesHeld(a) == {k \in 1..4 : RuleHolds(k, a)}

\* the classification with the rules tried in the given order
RECURSIVE ClassifiedIn(_, _, _, _)
ClassifiedIn(order, held, a, i) ==
    IF i > 4 THEN "neutral"
    ELSE IF order[i] \in held THEN RuleLabel(order[i], a)
    ELSE ClassifiedIn(order, held, a, i + 1)

\* C29: a snapshot whose trend group analyzeTrendDirection computed from a
\* non-empty universe satisfies at most one of the four rule predicates,
\* and every order of trying the rules classifies it as
\* determineMarketRegime does.
C29_AtMostOneRule ==
    (pc \in {"analysed", "classified"} /\ tickers # <<>>) =>
        LET held   == RulesHeld(analysis)
            regime == determineMarketRegime(analysis)
        IN  /\ Cardinality(held) <= 1
            /\ Gt(analysis.trend.bullishRatio, Num(Pct(BULL_THRESHOLD)))
                  => Gt(analysis.trend.trendStrength, Num(Pct(30)))
            /\ Gt(analysis.trend.bearishRatio, Num(Pct(100 - BEAR_THRESHOLD)))
                  => Gt(analysis.trend.trendStrength, Num(Pct(30)))
            /\ \A order \in RuleOrders : ClassifiedIn(order, held, analysis, 1) = regime
            /\ pc = "classified" => marketRegime = regime

\* four of five tickers rose and the bull rule alone classified the snapshot
C29_Witness ==
    /\ pc = "classified"
    /\ tickers = <<"pos", "pos", "neg", "pos", "pos">>
    /\ BullRule(analysis)
    /\ marketRegime = "bull_volatile"

\* every 24h change of the universe parsed to a number
NumericChanges(tk) == \A i \in DOMAIN tk : tk[i] # "nan"

\* a ratio that is a number of [0, 1]
FiniteRatio(r) == ~r.nan /\ r.v >= 0 /\ r.v <= Scale

\* C30: over n >= 1 tickers with numeric changes the three ratios are the
\* rising, falling and unchanged counts over n and sum to 1, trendStrength
\* is the double |bullishRatio - bearishRatio| and lies in [0, 1], and
\* direction is 'bullish' exactly when bullishRatio > bearishRatio; for
\* every universe, the empty one included, the four ratios are finite.
C30_TrendRatiosFinite ==
    pc \in {"analysed", "classified"} =>
        LET t == analysis.trend
            n == Len(tickers)
            p == Count(tickers, "pos")
            q == Count(tickers, "neg")
            z == Count(tickers, "zero")
        IN  /\ (n >= 1 /\ NumericChanges(tickers)) =>
                  /\ t.bullishRatio = Num((p * Scale) \div n)
                  /\ t.bearishRatio = Num((q * Scale) \div n)
                  /\ t.neutralRatio = Num((z * Scale) \div n)
                  /\ p * Scale = t.bullishRatio.v * n
                  /\ q * Scale = t.bearishRatio.v * n
                  /\ z * Scale = t.neutralRatio.v * n
                  /\ t.bullishRatio.v + t.bearishRatio.v + t.neutralRatio.v = Scale
                  /\ t.trendStrength.v \in
                        { Abs(t.bullishRatio.v - t.bearishRatio.v) - e : e \in {0, 1} }
                  /\ t.trendStrength.v >= 0 /\ t.trendStrength.v <= Scale
                  /\ t.direction = "bullish" <=> p > q
                  /\ p = q => t.direction = "bearish"
            /\ FiniteRatio(t.bullishRatio)
            /\ FiniteRatio(t.bearishRatio)
            /\ FiniteRatio(t.neutralRatio)
            /\ FiniteRatio(t.trendStrength)

============================================================================
